---- MODULE Spec2Model ----
(***************************************************************************)
(* A model of the zvm Z-machine interpreter: the memory bank (zmemory.py), *)
(* the call/data stack manager (zstackmanager.py), the instruction decoder *)
(* (zopdecoder.py), the arithmetic and variable plumbing of the CPU        *)
(* (zcpu.py) and the save-file parser (quetzal.py), wired together as      *)
(* ZMachine does.  Every Python method is an operator that maps the object's *)
(* state to an outcome record: the exception it raised (or "none"), the    *)
(* state it left behind and the value it returned.                         *)
(***************************************************************************)
EXTENDS Integers, Sequences, FiniteSets, TLC

VARIABLES
  memory,                 \* ZMemory._memory: address -> byte
  version,                \* ZMemory.version
  total_size,             \* ZMemory._total_size
  static_start,           \* ZMemory._static_start
  static_end,             \* ZMemory._static_end
  global_variable_start,  \* ZMemory._global_variable_start
  call_stack,             \* ZStackManager._call_stack
  program_counter,        \* ZOpDecoder.program_counter
  pristine_mem,           \* ZMachine._pristine_mem._memory
  machine_call_stack,     \* ZMachine._stackmanager._call_stack
  stack_replaced,         \* ZMachine._stackmanager is not ZCpu._stackmanager
  seen_mem_or_stks,       \* QuetzalParser._seen_mem_or_stks
  screen,                 \* the TrivialScreen of the user interface
  lastOp,                 \* the last call made, its exception and its result
  nops                    \* number of calls made so far

memvars == <<memory, version, total_size, static_start, static_end,
             global_variable_start>>
qvars == <<pristine_mem, machine_call_stack, stack_replaced, seen_mem_or_stks>>
vars == <<nops, memory, version, total_size, static_start, static_end,
          global_variable_start, call_stack, program_counter, pristine_mem,
          machine_call_stack, stack_replaced, seen_mem_or_stks, lastOp,
          screen>>

----------------------------------------------------------------------------
(* Bounds of the model.                                                    *)

\* length of the story image
TotalSize == 80
\* header word 0x0e of the story image
StaticStart == 68
\* header word 0x0c of the story image
GlobalsStart == 64
\* calls per behaviour of the memory specification
MaxMemOps == 2

\* Python's None, where the code stores None in an integer slot
None == -1

Versions == 1..5

----------------------------------------------------------------------------
(* Python integer helpers.                                                 *)

RECURSIVE Pow2(_)
Pow2(n) == IF n = 0 THEN 1 ELSE 2 * Pow2(n - 1)

\* x >> n for x >= 0
Shr(x, n) == x \div Pow2(n)

\* BitField.__getitem__: (self._d >> index) & 1
BitField__getitem__(d, index) == Shr(d, index) % 2

\* BitField.__getslice__: (self._d >> start) & (2**(end - start) - 1)
BitField__getslice__(d, start, end) == Shr(d, start) % Pow2(end - start)

Min(a, b) == IF a < b THEN a ELSE b

----------------------------------------------------------------------------
(* zmemory.py                                                              *)

\* HEADER_PERMS, one entry per header byte: <<min_version, game, interpreter>>
\* or <<>> for None.
HEADER_PERMS ==
  << <<1,0,0>>, <<3,0,1>>, <<>>, <<>>,
     <<1,0,0>>, <<>>, <<1,0,0>>, <<>>,
     <<1,0,0>>, <<>>, <<1,0,0>>, <<>>,
     <<1,0,0>>, <<>>, <<1,0,0>>, <<>>,
     <<1,1,1>>, <<1,1,1>>, <<>>, <<>>,
     <<>>, <<>>, <<>>, <<>>,
     <<2,0,0>>, <<>>, <<3,0,0>>, <<>>,
     <<3,0,0>>, <<>>, <<4,1,1>>, <<4,1,1>>,
     <<4,0,1>>, <<4,0,1>>, <<5,0,1>>, <<>>,
     <<5,0,1>>, <<>>, <<5,0,1>>, <<5,0,1>>,
     <<6,0,0>>, <<>>, <<6,0,0>>, <<>>,
     <<5,0,1>>, <<5,0,1>>, <<5,0,0>>, <<>>,
     <<6,0,1>>, <<>>, <<1,0,1>>, <<>>,
     <<5,0,0>>, <<>>, <<5,0,0>>, <<>>,
     <<>>, <<>>, <<>>, <<>>,
     <<>>, <<>>, <<>>, <<>> >>

\* HEADER_PERMS[address] for a Python (0-based) index
perm_tuple(address) == HEADER_PERMS[address + 1]

\* outcome of a method call: no exception
Ok(m, r) == [fault |-> "none", memory |-> m, ret |-> r]
\* outcome of a method call: exception e raised, memory left as m
Raise(e, m) == [fault |-> e, memory |-> m, ret |-> None]

\* ZMemory._check_bounds: TRUE when it raises ZMemoryOutOfBounds
_check_bounds(index) == ~(0 <= index /\ index < total_size)

\* ZMemory._check_static: TRUE when it raises ZMemoryIllegalWrite
_check_static(index) == static_start <= index /\ index <= static_end

\* ZMemory.__getitem__
__getitem__(m, index) ==
  IF _check_bounds(index) THEN Raise("ZMemoryOutOfBounds", m)
  ELSE Ok(m, m[index])

\* ZMemory.__setitem__
__setitem__(m, index, value) ==
  IF _check_bounds(index) THEN Raise("ZMemoryOutOfBounds", m)
  ELSE IF _check_static(index) THEN Raise("ZMemoryIllegalWrite", m)
  ELSE Ok([m EXCEPT ![index] = value], None)

\* ZMemory.__getslice__
__getslice__(m, start, end) ==
  IF _check_bounds(start) THEN Raise("ZMemoryOutOfBounds", m)
  ELSE IF _check_bounds(end) THEN Raise("ZMemoryOutOfBounds", m)
  ELSE Ok(m, [i \in 1..(end - start) |-> m[start + i - 1]])

\* ZMemory.__setslice__, for a sequence of end - start bytes
__setslice__(m, start, end, sequence) ==
  IF _check_bounds(start) THEN Raise("ZMemoryOutOfBounds", m)
  ELSE IF _check_bounds(end - 1) THEN Raise("ZMemoryOutOfBounds", m)
  ELSE IF _check_static(start) THEN Raise("ZMemoryIllegalWrite", m)
  ELSE IF _check_static(end - 1) THEN Raise("ZMemoryIllegalWrite", m)
  ELSE Ok([a \in DOMAIN m |->
             IF start <= a /\ a < end THEN sequence[a - start + 1] ELSE m[a]],
          None)

\* ZMemory.word_address
word_address(m, address) ==
  IF address < 0 \/ address > total_size \div 2
  THEN Raise("ZMemoryOutOfBounds", m)
  ELSE Ok(m, address * 2)

\* ZMemory.packed_address
packed_address(m, address) ==
  IF 1 <= version /\ version <= 3
  THEN (IF address < 0 \/ address > total_size \div 2
        THEN Raise("ZMemoryOutOfBounds", m)
        ELSE Ok(m, address * 2))
  ELSE IF 4 <= version /\ version <= 5
  THEN (IF address < 0 \/ address > total_size \div 4
        THEN Raise("ZMemoryOutOfBounds", m)
        ELSE Ok(m, address * 4))
  ELSE Raise("ZMemoryUnsupportedVersion", m)

\* ZMemory.read_word
read_word(m, address) ==
  IF address < 0 \/ address >= total_size - 1
  THEN Raise("ZMemoryOutOfBounds", m)
  ELSE Ok(m, m[address] * 256 + m[address + 1])

\* ZMemory.interpreter_set_header
interpreter_set_header(m, address, value) ==
  IF address < 0 \/ address > 63 THEN Raise("ZMemoryOutOfBounds", m)
  ELSE IF perm_tuple(address) = <<>> THEN Raise("ZMemoryIllegalWrite", m)
  ELSE IF version >= perm_tuple(address)[1] /\ perm_tuple(address)[3] # 0
  THEN Ok([m EXCEPT ![address] = value], None)
  ELSE Raise("ZMemoryIllegalWrite", m)

\* game_set_header consulting the interpreter's flag of the tuple
game_set_header_wrong_flag(m, address, value) ==
  IF address < 0 \/ address > 63 THEN Raise("ZMemoryOutOfBounds", m)
  ELSE IF perm_tuple(address) = <<>> THEN Raise("ZMemoryIllegalWrite", m)
  ELSE IF version >= perm_tuple(address)[1] /\ perm_tuple(address)[3] # 0
  THEN Ok([m EXCEPT ![address] = value], None)
  ELSE Raise("ZMemoryIllegalWrite", m)

\* ZMemory.game_set_header
game_set_header(m, address, value) ==
  IF address < 0 \/ address > 63 THEN Raise("ZMemoryOutOfBounds", m)
  ELSE IF perm_tuple(address) = <<>> THEN Raise("ZMemoryIllegalWrite", m)
  ELSE IF version >= perm_tuple(address)[1] /\ perm_tuple(address)[2] # 0
  THEN Ok([m EXCEPT ![address] = value], None)
  ELSE Raise("ZMemoryIllegalWrite", m)

\* ZMemory.write_word
write_word(m, address, value) ==
  LET value_msb == Shr(value, 8) % 256
      value_lsb == value % 256
  IN IF address < 0 \/ address >= total_size - 1
     THEN Raise("ZMemoryOutOfBounds", m)
     ELSE IF 0 <= address /\ address < 64
     THEN LET first == game_set_header(m, address, value_msb)
          IN IF first.fault # "none" THEN first
             ELSE game_set_header(first.memory, address + 1, value_lsb)
     ELSE Ok([m EXCEPT ![address] = value_msb, ![address + 1] = value_lsb],
             None)

\* ZMemory.__init__: the layout fields computed from the initial image
\* (the image's length is its domain 0..n-1)
init_total_size(story) == Cardinality(DOMAIN story)
init_static_start(story) == story[14] * 256 + story[15]
static_end_of(size) == Min(65535, size)
init_static_end(story) == static_end_of(init_total_size(story))
init_global_variable_start(story) == story[12] * 256 + story[13]
init_version(story) == story[0]

\* ZMemory.__init__: the exception it raises for an image of size bytes
\* whose header gives the start of static memory and the version, or "none"
layout_fault(size, sstart, ver) ==
  LET dynamic_end == sstart - 1
      dynamic_plus_static == (dynamic_end - 0) + (static_end_of(size) - sstart)
  IN IF dynamic_plus_static > 65534 THEN "ZMemoryBadMemoryLayout"
     ELSE IF 1 <= ver /\ ver <= 3
     THEN (IF size > 131072 THEN "ZMemoryBadStoryfileSize" ELSE "none")
     ELSE IF 4 <= ver /\ ver <= 5
     THEN (IF size > 262144 THEN "ZMemoryBadStoryfileSize" ELSE "none")
     ELSE "ZMemoryUnsupportedVersion"

init_fault(story) ==
  layout_fault(init_total_size(story), init_static_start(story),
               init_version(story))

\* ZMemory.read_global
read_global(m, varnum) ==
  IF ~(16 <= varnum /\ varnum <= 255) THEN Raise("ZMemoryOutOfBounds", m)
  ELSE read_word(m, global_variable_start + (varnum - 16) * 2)

\* ZMemory.write_global; the two list assignments raise IndexError beyond
\* the image, and the unbound name in the value check raises NameError
write_global(m, varnum, value) ==
  LET actual_address == global_variable_start + (varnum - 16) * 2
      high == BitField__getslice__(value, 8, 15)
      low == BitField__getslice__(value, 0, 7)
  IN IF ~(16 <= varnum /\ varnum <= 255) THEN Raise("ZMemoryOutOfBounds", m)
     ELSE IF ~(0 <= value /\ value <= 65535) THEN Raise("NameError", m)
     ELSE IF actual_address >= total_size THEN Raise("IndexError", m)
     ELSE IF actual_address + 1 >= total_size
     THEN Raise("IndexError", [m EXCEPT ![actual_address] = high])
     ELSE Ok([m EXCEPT ![actual_address] = high, ![actual_address + 1] = low],
             None)

----------------------------------------------------------------------------
(* zstackmanager.py                                                        *)

\* outcome of a stack manager call: the exception (or "none"), the call
\* stack and the memory it leaves, the value it returns
SOk(cs, m, r) ==
  [fault |-> "none", call_stack |-> cs, memory |-> m, ret |-> r]
SRaise(e, cs, m) ==
  [fault |-> e, call_stack |-> cs, memory |-> m, ret |-> None]

\* a memory outcome as the outcome of a stack manager call
SFromMem(cs, r) ==
  [fault |-> r.fault, call_stack |-> cs, memory |-> r.memory, ret |-> r.ret]

\* ZRoutine.__init__ with local_vars=None: the local count read at
\* START_ADDR (memory reads go through __getitem__ and read_word)
routine_num_local_vars(m, start_addr) == __getitem__(m, start_addr)

\* ZRoutine.__init__: the 15 local variables, the n declared ones read from
\* the routine header in versions 1-4, then overridden by the arguments
routine_local_vars(m, start_addr, n, args) ==
  [i \in 1..15 |->
     IF i <= Len(args) THEN args[i]
     ELSE IF version <= 4 /\ i <= n
     THEN read_word(m, start_addr + 1 + 2 * (i - 1)).ret
     ELSE 0]

\* ZRoutine.__init__: the exception, or "none"
routine_init_fault(m, start_addr, args) ==
  LET nr == routine_num_local_vars(m, start_addr) IN
  IF nr.fault # "none" THEN nr.fault
  ELSE IF ~(0 <= nr.ret /\ nr.ret <= 15) THEN "NameError"
  ELSE IF 1 <= version /\ version <= 4
  THEN (IF \E i \in 1..nr.ret :
             read_word(m, start_addr + 1 + 2 * (i - 1)).fault # "none"
        THEN "ZMemoryOutOfBounds"
        ELSE IF Len(args) > 15 THEN "IndexError" ELSE "none")
  ELSE IF version # 5 THEN "ZStackUnsupportedVersion"
  ELSE IF Len(args) > 15 THEN "IndexError" ELSE "none"

\* ZRoutine.__init__: the routine object.  num_local_vars, caller_stack and
\* call_pc are bookkeeping for the properties: the declared local count, and
\* the caller's evaluation stack and program counter when the routine was
\* called (start_routine fills them in).
ZRoutine(m, start_addr, return_addr, args, caller_stack, call_pc) ==
  LET n == routine_num_local_vars(m, start_addr).ret IN
  [kind |-> "routine",
   start_addr |-> IF version <= 4 THEN start_addr + 1 + 2 * n
                  ELSE start_addr + 1,
   return_addr |-> return_addr,
   program_counter |-> 0,
   stack |-> <<>>,
   local_vars |-> routine_local_vars(m, start_addr, n, args),
   num_local_vars |-> n,
   caller_stack |-> caller_stack,
   call_pc |-> call_pc]

\* the routine on top of the call stack: self._call_stack[-1]
Top(cs) == cs[Len(cs)]

\* ZStackManager.get_local_variable
get_local_variable(cs, m, varnum) ==
  IF Len(cs) = 0 THEN SRaise("IndexError", cs, m)
  ELSE IF Top(cs).kind = "bottom" THEN SRaise("ZStackNoRoutine", cs, m)
  ELSE IF ~(0 <= varnum /\ varnum <= 15)
  THEN SRaise("ZStackNoSuchVariable", cs, m)
  ELSE IF varnum >= Len(Top(cs).local_vars) THEN SRaise("IndexError", cs, m)
  ELSE SOk(cs, m, Top(cs).local_vars[varnum + 1])

\* ZStackManager.set_local_variable; its routine check looks at
\* self._call_stack[1], the second entry of the list
set_local_variable(cs, m, varnum, value) ==
  IF Len(cs) < 2 THEN SRaise("IndexError", cs, m)
  ELSE IF cs[2].kind = "bottom" THEN SRaise("ZStackNoRoutine", cs, m)
  ELSE IF ~(0 <= varnum /\ varnum <= 15)
  THEN SRaise("ZStackNoSuchVariable", cs, m)
  ELSE IF varnum >= Len(Top(cs).local_vars) THEN SRaise("IndexError", cs, m)
  ELSE SOk([cs EXCEPT ![Len(cs)].local_vars[varnum + 1] = value], m, None)

\* ZStackManager.push_stack; ZStackBottom has no stack attribute
push_stack(cs, m, value) ==
  IF Len(cs) = 0 THEN SRaise("IndexError", cs, m)
  ELSE IF Top(cs).kind = "bottom" THEN SRaise("AttributeError", cs, m)
  ELSE SOk([cs EXCEPT ![Len(cs)].stack = Append(@, value)], m, None)

\* pop_stack on one data stack shared by all routines: with nothing of its
\* own to pop, the routine pops what its caller pushed
pop_stack_shared(cs, m) ==
  IF Len(cs) = 0 THEN SRaise("IndexError", cs, m)
  ELSE IF Top(cs).kind = "bottom" THEN SRaise("AttributeError", cs, m)
  ELSE IF Len(Top(cs).stack) = 0
  THEN (IF Len(cs) >= 3 /\ Len(cs[Len(cs) - 1].stack) > 0
        THEN SOk([cs EXCEPT ![Len(cs) - 1].stack = SubSeq(@, 1, Len(@) - 1)],
                 m, cs[Len(cs) - 1].stack[Len(cs[Len(cs) - 1].stack)])
        ELSE SRaise("IndexError", cs, m))
  ELSE SOk([cs EXCEPT ![Len(cs)].stack = SubSeq(@, 1, Len(@) - 1)], m,
           Top(cs).stack[Len(Top(cs).stack)])

\* ZStackManager.pop_stack; list.pop() of an empty list raises IndexError
pop_stack(cs, m) ==
  IF Len(cs) = 0 THEN SRaise("IndexError", cs, m)
  ELSE IF Top(cs).kind = "bottom" THEN SRaise("AttributeError", cs, m)
  ELSE IF Len(Top(cs).stack) = 0 THEN SRaise("IndexError", cs, m)
  ELSE SOk([cs EXCEPT ![Len(cs)].stack = SubSeq(@, 1, Len(@) - 1)], m,
           Top(cs).stack[Len(Top(cs).stack)])

\* ZStackManager.get_stack_frame_index
get_stack_frame_index(cs) == Len(cs) - 1

\* ZStackManager.start_routine
start_routine(cs, m, routine_addr, return_addr, pc, args) ==
  IF routine_init_fault(m, routine_addr, args) # "none"
  THEN SRaise(routine_init_fault(m, routine_addr, args), cs, m)
  ELSE IF Len(cs) = 0 THEN SRaise("IndexError", cs, m)
  ELSE LET new_routine ==
             ZRoutine(m, routine_addr, return_addr, args, Top(cs).stack, pc)
       IN SOk(Append([cs EXCEPT ![Len(cs)].program_counter = pc],
                     new_routine),
              m, new_routine.start_addr)

\* ZStackManager.finish_routine
finish_routine(cs, m, return_value) ==
  IF Len(cs) = 0 THEN SRaise("IndexError", cs, m)
  ELSE
    LET exiting_routine == Top(cs)
        rest == SubSeq(cs, 1, Len(cs) - 1)
        disposed ==
          IF exiting_routine.return_addr = None THEN SOk(rest, m, None)
          ELSE IF exiting_routine.return_addr = 0
          THEN push_stack(rest, m, return_value)
          ELSE IF 0 < exiting_routine.return_addr
                  /\ exiting_routine.return_addr < 10
          THEN set_local_variable(rest, m, exiting_routine.return_addr,
                                  return_value)
          ELSE SFromMem(rest, write_global(m, exiting_routine.return_addr,
                                           return_value))
    IN IF Len(rest) = 0 THEN SRaise("IndexError", rest, m)
       ELSE IF disposed.fault # "none" THEN disposed
       ELSE SOk(disposed.call_stack, disposed.memory,
                Top(rest).program_counter)

----------------------------------------------------------------------------
(* zopdecoder.py: the readers the opcode handlers call                     *)

\* outcome of a decoder or CPU call: as for the stack manager, and the
\* program counter it leaves
COk(cs, m, pc, r) ==
  [fault |-> "none", call_stack |-> cs, memory |-> m, pc |-> pc, ret |-> r]
CRaise(e, cs, m, pc) ==
  [fault |-> e, call_stack |-> cs, memory |-> m, pc |-> pc, ret |-> None]

\* a stack manager or memory outcome as the outcome of a CPU call
CFromStack(r, pc) ==
  [fault |-> r.fault, call_stack |-> r.call_stack, memory |-> r.memory,
   pc |-> pc, ret |-> r.ret]
CFromMem(cs, r, pc) ==
  [fault |-> r.fault, call_stack |-> cs, memory |-> r.memory, pc |-> pc,
   ret |-> r.ret]

\* ZOpDecoder.get_store_address
get_store_address(cs, m, pc) ==
  IF __getitem__(m, pc).fault # "none"
  THEN CRaise(__getitem__(m, pc).fault, cs, m, pc)
  ELSE COk(cs, m, pc + 1, __getitem__(m, pc).ret)

\* ZOpDecoder.get_branch_offset: returns <<branch-on-true bit, offset>>
get_branch_offset(cs, m, pc) ==
  LET w == read_word(m, pc)
  IN IF w.fault # "none" THEN CRaise(w.fault, cs, m, pc)
     ELSE IF BitField__getitem__(w.ret, 14) = 1
     THEN COk(cs, m, pc + 1, <<BitField__getitem__(w.ret, 15),
                               BitField__getslice__(w.ret, 8, 14)>>)
     ELSE COk(cs, m, pc + 2, <<BitField__getitem__(w.ret, 15),
                               BitField__getslice__(w.ret, 0, 14)>>)

\* ZOpDecoder._get_operand_types: the sizes of the operands to read
_get_operand_types(byte) ==
  LET field_list == <<BitField__getslice__(byte, 6, 8),
                      BitField__getslice__(byte, 4, 6),
                      BitField__getslice__(byte, 2, 4),
                      BitField__getslice__(byte, 0, 2)>>
      size(value) == IF value = 0 THEN <<2>>
                     ELSE IF 1 <= value /\ value <= 2 THEN <<1>>
                     ELSE <<>>
  IN size(field_list[1]) \o size(field_list[2]) \o size(field_list[3])
       \o size(field_list[4])

\* the operand loop of _variable_2op, _variable_var and _extended_var: read
\* one operand per entry of type_list, advancing the program counter after
\* each; an exception leaves the program counter where the loop stood
RECURSIVE read_operands(_, _, _, _, _)
read_operands(cs, m, pc, type_list, operands) ==
  IF type_list = <<>> THEN COk(cs, m, pc, operands)
  ELSE LET size == Head(type_list)
           operand == IF size = 1 THEN __getitem__(m, pc)
                      ELSE read_word(m, pc)
       IN IF operand.fault # "none" THEN CRaise(operand.fault, cs, m, pc)
          ELSE read_operands(cs, m, pc + size, Tail(type_list),
                             Append(operands, operand.ret))

\* a decoded instruction as the parse functions return it:
\* [opcode, [operand, ...]]
Decoded(r, opcode) ==
  IF r.fault # "none" THEN r
  ELSE [r EXCEPT !.ret = <<opcode, r.ret>>]

\* ZOpDecoder._read_two_bytes (the four _long_2op_* parse functions)
_read_two_bytes(cs, m, pc, opcode) ==
  IF __getitem__(m, pc).fault # "none"
  THEN CRaise(__getitem__(m, pc).fault, cs, m, pc)
  ELSE IF __getitem__(m, pc + 1).fault # "none"
  THEN CRaise(__getitem__(m, pc + 1).fault, cs, m, pc)
  ELSE COk(cs, m, pc + 2, <<opcode, <<m[pc], m[pc + 1]>> >>)

\* ZOpDecoder._short_1op_large
_short_1op_large(cs, m, pc, opcode) ==
  IF read_word(m, pc).fault # "none"
  THEN CRaise(read_word(m, pc).fault, cs, m, pc)
  ELSE COk(cs, m, pc + 2, <<opcode, <<read_word(m, pc).ret>> >>)

\* ZOpDecoder._read_one_byte (_short_1op_small and _short_1op_var)
_read_one_byte(cs, m, pc, opcode) ==
  IF __getitem__(m, pc).fault # "none"
  THEN CRaise(__getitem__(m, pc).fault, cs, m, pc)
  ELSE COk(cs, m, pc + 1, <<opcode, <<m[pc]>> >>)

\* ZOpDecoder._short_0op
_short_0op(cs, m, pc, opcode) == COk(cs, m, pc, <<opcode, <<>> >>)

\* ZOpDecoder._variable_2op
_variable_2op(cs, m, pc, opcode) ==
  IF __getitem__(m, pc).fault # "none"
  THEN CRaise(__getitem__(m, pc).fault, cs, m, pc)
  ELSE IF Len(_get_operand_types(m[pc])) # 2
  THEN CRaise("ZOperationError", cs, m, pc + 1)
  ELSE Decoded(read_operands(cs, m, pc + 1, _get_operand_types(m[pc]), <<>>),
               opcode)

\* ZOpDecoder._variable_var; opcodes 236 and 250 carry a second types byte
_variable_var(cs, m, pc, opcode) ==
  IF __getitem__(m, pc).fault # "none"
  THEN CRaise(__getitem__(m, pc).fault, cs, m, pc)
  ELSE IF opcode = 236 \/ opcode = 250
  THEN (IF __getitem__(m, pc + 1).fault # "none"
        THEN CRaise(__getitem__(m, pc + 1).fault, cs, m, pc + 1)
        ELSE Decoded(read_operands(cs, m, pc + 2,
                                   _get_operand_types(m[pc])
                                     \o _get_operand_types(m[pc + 1]),
                                   <<>>),
                     opcode))
  ELSE Decoded(read_operands(cs, m, pc + 1, _get_operand_types(m[pc]), <<>>),
               opcode)

\* ZOpDecoder._extended_var
_extended_var(cs, m, pc, opcode) ==
  IF __getitem__(m, pc).fault # "none"
  THEN CRaise(__getitem__(m, pc).fault, cs, m, pc)
  ELSE IF __getitem__(m, pc + 1).fault # "none"
  THEN CRaise(__getitem__(m, pc + 1).fault, cs, m, pc + 1)
  ELSE Decoded(read_operands(cs, m, pc + 2, _get_operand_types(m[pc + 1]),
                             <<>>),
               256 + m[pc])

\* ZOpDecoder.__init__: the parse function _parse_map holds for an opcode
\* byte, applied to it
_parse_map(cs, m, pc, opcode) ==
  IF version = 5 /\ opcode = 190 THEN _extended_var(cs, m, pc, opcode)
  ELSE IF opcode <= 127 THEN _read_two_bytes(cs, m, pc, opcode)
  ELSE IF opcode <= 143 THEN _short_1op_large(cs, m, pc, opcode)
  ELSE IF opcode <= 175 THEN _read_one_byte(cs, m, pc, opcode)
  ELSE IF opcode <= 191 THEN _short_0op(cs, m, pc, opcode)
  ELSE IF opcode <= 223 THEN _variable_2op(cs, m, pc, opcode)
  ELSE _variable_var(cs, m, pc, opcode)

\* ZOpDecoder.get_next_instruction
get_next_instruction(cs, m, pc) ==
  IF __getitem__(m, pc).fault # "none"
  THEN CRaise(__getitem__(m, pc).fault, cs, m, pc)
  ELSE _parse_map(cs, m, pc + 1, m[pc])

----------------------------------------------------------------------------
(* zcpu.py                                                                 *)

\* ZCpu._make_signed
_make_signed(a) ==
  IF BitField__getitem__(a, 15) # 0
  THEN BitField__getslice__(a, 0, 15) - 65536
  ELSE a

\* ZCpu._unmake_signed
_unmake_signed(a) == IF a < 0 THEN 65536 + a ELSE a

\* _read_variable that reads the top of the stack and leaves it there
read_variable_peek(cs, m, addr) ==
  IF addr = 0
  THEN (IF pop_stack(cs, m).fault # "none" THEN pop_stack(cs, m)
        ELSE SOk(cs, m, pop_stack(cs, m).ret))
  ELSE IF 0 < addr /\ addr < 16 THEN get_local_variable(cs, m, addr - 1)
  ELSE SFromMem(cs, read_global(m, addr))

\* ZCpu._read_variable
_read_variable(cs, m, addr) ==
  IF addr = 0 THEN pop_stack(cs, m)
  ELSE IF 0 < addr /\ addr < 16 THEN get_local_variable(cs, m, addr - 1)
  ELSE SFromMem(cs, read_global(m, addr))

\* ZCpu._write_result with the store address given by the caller
write_result_to(cs, m, result_value, result_addr) ==
  IF result_addr = 0 THEN push_stack(cs, m, result_value)
  ELSE IF 0 < result_addr /\ result_addr < 16
  THEN set_local_variable(cs, m, result_addr - 1, result_value)
  ELSE SFromMem(cs, write_global(m, result_addr, result_value))

\* ZCpu._write_result: store_addr=None reads the destination variable from
\* the instruction stream
_write_result(cs, m, pc, result_value, store_addr) ==
  IF store_addr = None
  THEN LET sa == get_store_address(cs, m, pc)
       IN IF sa.fault # "none" THEN sa
          ELSE CFromStack(write_result_to(cs, m, result_value, sa.ret),
                          sa.pc)
  ELSE CFromStack(write_result_to(cs, m, result_value, store_addr), pc)

\* ZCpu.op_add
op_add(cs, m, pc, a, b) ==
  _write_result(cs, m, pc,
                _unmake_signed(_make_signed(a) + _make_signed(b)), None)

\* ZCpu.op_sub
op_sub(cs, m, pc, a, b) ==
  _write_result(cs, m, pc,
                _unmake_signed(_make_signed(a) - _make_signed(b)), None)

\* ZCpu.op_mul
op_mul(cs, m, pc, a, b) ==
  _write_result(cs, m, pc,
                _unmake_signed(_make_signed(a) * _make_signed(b)), None)

\* Python 2 integer division a/b, which rounds towards minus infinity
PyFloorDiv(a, b) ==
  IF b > 0 THEN a \div b ELSE (0 - a) \div (0 - b)

\* ZCpu.op_div
op_div(cs, m, pc, a, b) ==
  IF _make_signed(b) = 0 THEN CRaise("ZCpuDivideByZero", cs, m, pc)
  ELSE _write_result(cs, m, pc,
                     _unmake_signed(PyFloorDiv(_make_signed(a),
                                               _make_signed(b))), None)

\* ZCpu._call, and op_call with store_return_value set: the routine is
\* started whatever its address, and the decoder continues in it
_call(cs, m, pc, routine_address, args, store_return_value) ==
  LET addr == packed_address(m, routine_address) IN
  IF addr.fault # "none" THEN CFromMem(cs, addr, pc)
  ELSE
    LET sa == IF store_return_value THEN get_store_address(cs, m, pc)
              ELSE COk(cs, m, pc, None)
    IN IF sa.fault # "none" THEN sa
       ELSE LET started == start_routine(cs, m, addr.ret, sa.ret, sa.pc, args)
            IN IF started.fault # "none" THEN CFromStack(started, sa.pc)
               ELSE CFromStack([started EXCEPT !.ret = None], started.ret)

\* ZCpu.op_call, which op_call_vs calls
op_call(cs, m, pc, routine_addr, args) ==
  _call(cs, m, pc, routine_addr, args, TRUE)

\* ZCpu.op_call_1s
op_call_1s(cs, m, pc, routine_address) ==
  _call(cs, m, pc, routine_address, <<>>, TRUE)

\* ZCpu.op_call_1n
op_call_1n(cs, m, pc, routine_addr) ==
  _call(cs, m, pc, routine_addr, <<>>, FALSE)

\* ZCpu.op_store
op_store(cs, m, pc, variable, value) ==
  _write_result(cs, m, pc, value, variable)

\* _branch jumping by the offset itself, without the -2 adjustment
branch_no_adjust(cs, m, pc, test_result) ==
  LET r == get_branch_offset(cs, m, pc) IN
  IF r.fault # "none" THEN r
  ELSE LET branch_cond == r.ret[1]
           branch_offset == r.ret[2]
       IN IF test_result = branch_cond
          THEN (IF branch_offset = 0 \/ branch_offset = 1
                THEN LET f == finish_routine(cs, m, branch_offset)
                     IN IF f.fault # "none" THEN CFromStack(f, r.pc)
                        ELSE CFromStack([f EXCEPT !.ret = None], f.ret)
                ELSE COk(cs, m, r.pc + branch_offset, None))
          ELSE COk(cs, m, r.pc, None)

\* ZCpu._branch: test_result is 1 for True and 0 for False
_branch(cs, m, pc, test_result) ==
  LET r == get_branch_offset(cs, m, pc) IN
  IF r.fault # "none" THEN r
  ELSE LET branch_cond == r.ret[1]
           branch_offset == r.ret[2]
       IN IF test_result = branch_cond
          THEN (IF branch_offset = 0 \/ branch_offset = 1
                THEN LET f == finish_routine(cs, m, branch_offset)
                     IN IF f.fault # "none" THEN CFromStack(f, r.pc)
                        ELSE CFromStack([f EXCEPT !.ret = None], f.ret)
                ELSE COk(cs, m, r.pc + (branch_offset - 2), None))
          ELSE COk(cs, m, r.pc, None)

\* ZCpu.op_je(self, a, b=None) called with the operands of the instruction:
\* more than two, or none, do not fit its parameters
op_je(cs, m, pc, operands) ==
  IF Len(operands) < 1 \/ Len(operands) > 2 THEN CRaise("TypeError", cs, m, pc)
  ELSE _branch(cs, m, pc,
               IF Len(operands) = 2 /\ operands[1] = operands[2] THEN 1
               ELSE 0)

\* the forms of the definitions of ZCpu.opcodes: None, a function, a tuple
\* (function, first_version), a list of such tuples
NoHandler == "None"
NoDecl == [kind |-> "none", entries |-> <<>>]
Func(f) == [kind |-> "func", entries |-> <<[func |-> f, version |-> 0]>>]
Since(f, v) == [kind |-> "tuple", entries |-> <<[func |-> f, version |-> v]>>]
ByVersion(es) ==
  [kind |-> "list",
   entries |-> [i \in 1..Len(es) |-> [func |-> es[i][1], version |-> es[i][2]]]]

\* ZCpu.opcodes, keyed by the names of the opcode classes
opcodes ==
  "2OP" :>
    <<
     NoDecl, Func("op_je"), Func("op_jl"), Func("op_jg"),
     Func("op_dec_chk"), Func("op_inc_chk"), Func("op_jin"),
     Func("op_test"), Func("op_or"), Func("op_and"), Func("op_test_attr"),
     Func("op_set_attr"), Func("op_clear_attr"), Func("op_store"),
     Func("op_insert_obj"), Func("op_loadw"), Func("op_loadb"),
     Func("op_get_prop"), Func("op_get_prop_addr"),
     Func("op_get_next_prop"), Func("op_add"), Func("op_sub"),
     Func("op_mul"), Func("op_div"), Func("op_mod"), Since("op_call_2s",
     4), Since("op_call_2n", 5), Since("op_set_colour", 5),
     Since("op_throw", 5)
    >> @@
  "1OP" :>
    <<
     Func("op_jz"), Func("op_get_sibling"), Func("op_get_child"),
     Func("op_get_parent"), Func("op_get_prop_len"), Func("op_inc"),
     Func("op_dec"), Func("op_print_addr"), Since("op_call_1s", 4),
     Func("op_remove_obj"), Func("op_print_obj"), Func("op_ret"),
     Func("op_jump"), Func("op_print_paddr"), Func("op_load"),
     ByVersion(<<<<"op_call_1n", 5>>, <<"op_not", 1>>>>)
    >> @@
  "0OP" :>
    <<
     Func("op_rtrue"), Func("op_rfalse"), Func("op_print"),
     Func("op_print_ret"), Func("op_nop"), ByVersion(<<<<"None", 5>>,
     <<"op_save_v4", 4>>, <<"op_save", 1>>>>), ByVersion(<<<<"None", 5>>,
     <<"op_restore_v4", 4>>, <<"op_restore", 1>>>>), Func("op_restart"),
     Func("op_ret_popped"), ByVersion(<<<<"op_catch", 5>>, <<"op_pop",
     1>>>>), Func("op_quit"), Func("op_new_line"), ByVersion(<<<<"None",
     4>>, <<"op_show_status", 3>>>>), Since("op_verify", 3), NoDecl,
     Since("op_piracy", 5)
    >> @@
  "VAR" :>
    <<
     ByVersion(<<<<"op_call_vs", 4>>, <<"op_call", 1>>>>),
     Func("op_storew"), Func("op_storeb"), Func("op_put_prop"),
     ByVersion(<<<<"op_aread", 5>>, <<"op_sread_v4", 4>>, <<"op_sread",
     1>>>>), Func("op_print_char"), Func("op_print_num"),
     Func("op_random"), Func("op_push"), Func("op_pull"),
     Since("op_split_window", 3), Since("op_set_window", 3),
     Since("op_call_vs2", 4), Since("op_erase_window", 4),
     Since("op_erase_line", 4), Since("op_set_cursor", 4),
     Since("op_get_cursor", 4), Since("op_set_text_style", 4),
     Since("op_buffer_mode", 4), ByVersion(<<<<"op_output_stream_v5", 5>>,
     <<"op_output_stream", 3>>>>), Since("op_input_stream", 3),
     Since("op_sound_effect", 5), Since("op_read_char", 4),
     Since("op_scan_table", 4), Since("op_not", 5), Since("op_call_vn",
     5), Since("op_call_vn2", 5), Since("op_tokenize", 5),
     Since("op_encode_text", 5), Since("op_copy_table", 5),
     Since("op_print_table", 5), Since("op_check_arg_count", 5)
    >> @@
  "EXT" :>
    <<
     Since("op_save_v5", 5), Since("op_restore_v5", 5),
     Since("op_log_shift", 5), Since("op_art_shift", 5),
     Since("op_set_font", 5), NoDecl, NoDecl, NoDecl, NoDecl,
     Since("op_save_undo", 5), Since("op_restore_undo", 5),
     Since("op_print_unicode", 5), Since("op_check_unicode", 5)
    >>

\* __doc__ of a handler: every op_ function of ZCpu has a docstring, and
\* None.__doc__ is None
HasDoc(opcode_func) == opcode_func # NoHandler

\* the first entry of a version list that the loop of _get_handler accepts,
\* 0 if it accepts none
RECURSIVE first_applicable(_, _, _)
first_applicable(entries, i, ver) ==
  IF i > Len(entries) THEN 0
  ELSE IF entries[i].version <= ver THEN i
  ELSE first_applicable(entries, i + 1, ver)

\* ZCpu._get_handler: returns (implemented, handler)
_get_handler(m, opcode_class, opcode_number) ==
  LET table == opcodes[opcode_class]
      opcode_decl ==
        IF 0 <= opcode_number /\ opcode_number < Len(table)
        THEN table[opcode_number + 1]
        ELSE IF opcode_number < 0 /\ 0 - opcode_number <= Len(table)
        THEN table[Len(table) + opcode_number + 1]
        ELSE NoDecl
      found == first_applicable(opcode_decl.entries, 1, version)
      finish(opcode_func) == Ok(m, <<HasDoc(opcode_func), opcode_func>>)
  IN IF opcode_decl.kind = "none" THEN Raise("ZCpuIllegalInstruction", m)
     ELSE IF opcode_decl.kind = "func"
     THEN finish(opcode_decl.entries[1].func)
     ELSE IF opcode_decl.kind = "list"
     THEN (IF found = 0 THEN Raise("UnboundLocalError", m)
           ELSE finish(opcode_decl.entries[found].func))
     ELSE IF opcode_decl.entries[1].version <= version
     THEN finish(opcode_decl.entries[1].func)
     ELSE Raise("ZCpuIllegalInstruction", m)

----------------------------------------------------------------------------
(* zobjectparser.py: the object tree.                                      *)

\* run F on the outcome of r unless r raised
Bind(r, F(_)) == IF r.fault # "none" THEN r ELSE F(r)

\* ZObjectParser.__init__: _objecttree_addr
_objecttree_addr(m) ==
  IF version <= 3 THEN read_word(m, 10).ret + 62
  ELSE read_word(m, 10).ret + 126

\* ZObjectParser._get_object_addr
_get_object_addr(m, objectnum) ==
  IF 1 <= version /\ version <= 3
  THEN (IF ~(1 <= objectnum /\ objectnum <= 255)
        THEN Raise("ZObjectIllegalObjectNumber", m)
        ELSE Ok(m, _objecttree_addr(m) + 9 * (objectnum - 1)))
  ELSE IF 4 <= version /\ version <= 5
  THEN (IF ~(1 <= objectnum /\ objectnum <= 65535)
        THEN Raise("ZObjectIllegalObjectNumber", m)
        ELSE Ok(m, _objecttree_addr(m) + 14 * (objectnum - 1)))
  ELSE Raise("ZObjectIllegalVersion", m)

\* ZObjectParser._get_parent_sibling_child
_get_parent_sibling_child(m, objectnum) ==
  Bind(_get_object_addr(m, objectnum), LAMBDA a :
    IF version <= 3 THEN __getslice__(m, a.ret + 4, a.ret + 4 + 3)
    ELSE Bind(read_word(m, a.ret + 6), LAMBDA w1 :
         Bind(read_word(m, a.ret + 6 + 2), LAMBDA w2 :
         Bind(read_word(m, a.ret + 6 + 4), LAMBDA w3 :
           Ok(m, <<w1.ret, w2.ret, w3.ret>>)))))

\* ZObjectParser.get_parent, get_sibling, get_child
get_parent(m, objectnum) ==
  Bind(_get_parent_sibling_child(m, objectnum), LAMBDA r : Ok(m, r.ret[1]))
get_sibling(m, objectnum) ==
  Bind(_get_parent_sibling_child(m, objectnum), LAMBDA r : Ok(m, r.ret[2]))
get_child(m, objectnum) ==
  Bind(_get_parent_sibling_child(m, objectnum), LAMBDA r : Ok(m, r.ret[3]))

\* ZObjectParser.set_parent
set_parent(m, objectnum, new_parent_num) ==
  Bind(_get_object_addr(m, objectnum), LAMBDA a :
    IF version <= 3 THEN __setitem__(m, a.ret + 4, new_parent_num)
    ELSE write_word(m, a.ret + 6, new_parent_num))

\* ZObjectParser.set_child
set_child(m, objectnum, new_child_num) ==
  Bind(_get_object_addr(m, objectnum), LAMBDA a :
    IF version <= 3 THEN __setitem__(m, a.ret + 6, new_child_num)
    ELSE write_word(m, a.ret + 10, new_child_num))

\* ZObjectParser.set_sibling
set_sibling(m, objectnum, new_sibling_num) ==
  Bind(_get_object_addr(m, objectnum), LAMBDA a :
    IF version <= 3 THEN __setitem__(m, a.ret + 5, new_sibling_num)
    ELSE write_word(m, a.ret + 8, new_sibling_num))

\* the hunt of insert_object for new_child in the child list of its old
\* parent p, after new_child has been linked under its new parent; the
\* while loop never moves current along the list, so that it does not end
\* when current is another object
insert_object_unlink(m, p, s, new_child) ==
  Bind(get_child(m, p), LAMBDA item :
    IF item.ret = 0 THEN Raise("ZObjectMalformedTree", m)
    ELSE IF item.ret = new_child THEN set_child(m, p, s)
    ELSE Bind(get_sibling(m, item.ret), LAMBDA current :
           IF current.ret = 0 THEN Raise("ZObjectMalformedTree", m)
           ELSE IF current.ret = new_child THEN set_sibling(m, item.ret, s)
           ELSE Raise("nontermination", m)))

\* ZObjectParser.insert_object
insert_object(m, parent_object, new_child) ==
  Bind(_get_parent_sibling_child(m, new_child), LAMBDA psc :
  Bind(get_child(m, parent_object), LAMBDA original_child :
  Bind(set_sibling(m, new_child, original_child.ret), LAMBDA m1 :
  Bind(set_parent(m1.memory, new_child, parent_object), LAMBDA m2 :
  Bind(set_child(m2.memory, parent_object, new_child), LAMBDA m3 :
    IF psc.ret[1] = 0 THEN Ok(m3.memory, None)
    ELSE insert_object_unlink(m3.memory, psc.ret[1], psc.ret[2],
                              new_child))))))

\* ZObjectParser.get_attribute
get_attribute(m, objectnum, attrnum) ==
  Bind(_get_object_addr(m, objectnum), LAMBDA object_addr :
    IF 1 <= version /\ version <= 3
    THEN (IF ~(0 <= attrnum /\ attrnum <= 31)
          THEN Raise("ZObjectIllegalAttributeNumber", m)
          ELSE Bind(__getitem__(m, object_addr.ret + (attrnum \div 8)),
                    LAMBDA bf :
                      Ok(m, BitField__getitem__(bf.ret, 7 - (attrnum % 8)))))
    ELSE IF 4 <= version /\ version <= 5
    THEN (IF ~(0 <= attrnum /\ attrnum <= 47)
          THEN Raise("ZObjectIllegalAttributeNumber", m)
          ELSE Bind(__getitem__(m, object_addr.ret + (attrnum \div 8)),
                    LAMBDA bf :
                      Ok(m, BitField__getitem__(bf.ret, 7 - (attrnum % 8)))))
    ELSE Raise("ZObjectIllegalVersion", m))

\* ZCpu.op_test_attr, op_set_attr, op_clear_attr
op_test_attr(cs, m, pc, args) == CRaise("ZCpuNotImplemented", cs, m, pc)
op_set_attr(cs, m, pc, args) == CRaise("ZCpuNotImplemented", cs, m, pc)
op_clear_attr(cs, m, pc, args) == CRaise("ZCpuNotImplemented", cs, m, pc)

\* ZCpu.run, which ZMachine.run and main of run_story.py call without a
\* handler: the loop ends with the first exception, and every pass raises
\* one, since get_next_instruction returns a pair and run unpacks three
\* values. The exception leaves the program with the arguments it was
\* raised with, none of them the program counter: ret, the program counter
\* reported with the fault, is None.
ZCpu_run(cs, m, pc) ==
  LET decoded == get_next_instruction(cs, m, pc)
  IN IF decoded.fault # "none" THEN [decoded EXCEPT !.ret = None]
     ELSE CRaise("ValueError", decoded.call_stack, decoded.memory, decoded.pc)

----------------------------------------------------------------------------
(* trivialzui.py and run_story.py: the input boundary and the end of the   *)
(* program.                                                                *)

\* trivialzui._INTERRUPT_CHAR, chr(3)
INTERRUPT_CHAR == 3

\* trivialzui._read_char, for the character the platform read
_read_char(m, char) ==
  IF char = INTERRUPT_CHAR THEN Raise("KeyboardInterrupt", m)
  ELSE Ok(m, char)

\* TrivialKeyboardInputStream.read_char
read_char(m, char) ==
  Bind(_read_char(m, char), LAMBDA result : Ok(m, result.ret))

\* the exit status of the program when fault leaves the handler that run
\* called: ZCpu.run, ZMachine.run and main of run_story.py catch nothing,
\* and Python ends with status 1 on an uncaught exception; None while the
\* program goes on
exit_status(fault) == IF fault = "none" THEN None ELSE 1

\* zscreen.INFINITE_ROWS and zscreen.STYLE_BOLD
INFINITE_ROWS == 255
STYLE_BOLD == 2

\* what sys.stdout receives besides characters: the "[MORE]" of
\* __show_more_prompt and the "\r      \r" that erases it
MORE_STRING == -2
ERASE_MORE == -3

\* ZScreen.__init__ and TrivialScreen.__init__, for a screen of the given
\* size
TrivialScreenSized(rows, columns) ==
  [_rows |-> rows, _columns |-> columns, buffer_mode |-> FALSE,
   styleIsAllUppercase |-> FALSE, curr_column |-> 0,
   rows_since_last_input |-> 0]

\* the screen that create_zui constructs: 24 rows of 79 columns
TrivialScreen__init__ == TrivialScreenSized(24, 79)

\* outcome of a call on the screen: the exception, the screen it leaves and
\* what it wrote to sys.stdout
ScreenOk(self, out) == [fault |-> "none", screen |-> self, out |-> out]
ScreenRaise(e, self, out) == [fault |-> e, screen |-> self, out |-> out]

\* TrivialScreen.erase_window
erase_window(self) ==
  ScreenOk([self EXCEPT !.curr_column = 0, !.rows_since_last_input = 0],
           [row \in 1..self._rows |-> 10])

\* TrivialScreen.set_text_style
set_text_style(self, style) ==
  ScreenOk([self EXCEPT !.styleIsAllUppercase = (style = STYLE_BOLD)], <<>>)

\* ZCpu.op_buffer_mode
op_buffer_mode(self, flag) ==
  ScreenOk([self EXCEPT !.buffer_mode = (flag # 0)], <<>>)

\* __show_more_prompt that leaves the row counter as it is
show_more_prompt_no_reset(self, out, key) ==
  IF self.curr_column # 0 THEN ScreenRaise("AssertionError", self, out)
  ELSE IF key = INTERRUPT_CHAR
  THEN ScreenRaise("KeyboardInterrupt", self, Append(out, MORE_STRING))
  ELSE ScreenOk(self, out \o <<MORE_STRING, ERASE_MORE>>)

\* TrivialScreen.__show_more_prompt, for the key that _read_char reads; out
\* is what the caller has written so far
__show_more_prompt(self, out, key) ==
  IF self.curr_column # 0 THEN ScreenRaise("AssertionError", self, out)
  ELSE IF key = INTERRUPT_CHAR
  THEN ScreenRaise("KeyboardInterrupt", self, Append(out, MORE_STRING))
  ELSE ScreenOk([self EXCEPT !.rows_since_last_input = 0],
                out \o <<MORE_STRING, ERASE_MORE>>)

\* TrivialScreen.on_input_occurred
on_input_occurred(self, newline_occurred) ==
  ScreenOk([self EXCEPT !.rows_since_last_input = 0,
                        !.curr_column = IF newline_occurred THEN 0 ELSE @],
           <<>>)

\* TrivialScreen.__unbuffered_write; keys are the keys that the prompts
\* read, in order, and out is what has been written so far
RECURSIVE __unbuffered_write(_, _, _, _)
__unbuffered_write(self, string, keys, out) ==
  IF string = <<>> THEN ScreenOk(self, out)
  ELSE LET char == Head(string)
           column == IF char = 10 THEN self.curr_column
                     ELSE self.curr_column + 1
           wrapped == column = self._columns
           newline_printed == char = 10 \/ wrapped
           written == out \o <<char>> \o (IF wrapped THEN <<10>> ELSE <<>>)
           counted == [self EXCEPT !.curr_column = 0,
                                   !.rows_since_last_input = @ + 1]
       IN IF ~newline_printed
          THEN __unbuffered_write([self EXCEPT !.curr_column = column],
                                  Tail(string), keys, written)
          ELSE IF counted.rows_since_last_input = self._rows
                  /\ self._rows # INFINITE_ROWS
          THEN LET prompt == __show_more_prompt(counted, written, Head(keys))
               IN IF prompt.fault # "none" THEN prompt
                  ELSE __unbuffered_write(prompt.screen, Tail(string),
                                          Tail(keys), prompt.out)
          ELSE __unbuffered_write(counted, Tail(string), keys, written)

\* text.split(' ')
RECURSIVE split(_)
split(text) ==
  IF \A i \in DOMAIN text : text[i] # 32 THEN <<text>>
  ELSE LET i == CHOOSE i \in DOMAIN text :
                  text[i] = 32 /\ \A j \in 1..(i - 1) : text[j] # 32
       IN <<SubSeq(text, 1, i - 1)>> \o split(SubSeq(text, i + 1, Len(text)))

\* len(line) - line.rfind('\n') - 1
after_last_newline(line) ==
  IF \A i \in DOMAIN line : line[i] # 10 THEN Len(line)
  ELSE Len(line) - (CHOOSE i \in DOMAIN line :
                      line[i] = 10 /\ \A j \in (i + 1)..Len(line) :
                                        line[j] # 10)

\* len(word.split('\n', 1)[0])
before_first_newline(word) ==
  IF \A i \in DOMAIN word : word[i] # 10 THEN Len(word)
  ELSE (CHOOSE i \in DOMAIN word :
          word[i] = 10 /\ \A j \in 1..(i - 1) : word[j] # 10) - 1

\* the reduce of trivialzui._word_wrap over the words left
RECURSIVE word_wrap_reduce(_, _, _)
word_wrap_reduce(line, words, width) ==
  IF words = <<>> THEN line
  ELSE LET word == Head(words)
           break == after_last_newline(line) + before_first_newline(word)
                    >= width
       IN word_wrap_reduce(line \o <<IF break THEN 10 ELSE 32>> \o word,
                           Tail(words), width)

\* trivialzui._word_wrap
_word_wrap(text, width) ==
  word_wrap_reduce(Head(split(text)), Tail(split(text)), width)

\* unicode.upper on the letters of the model
upper(string) ==
  [i \in DOMAIN string |->
     IF string[i] \in 97..122 THEN string[i] - 32 ELSE string[i]]

\* TrivialScreen.write
write(self, string, keys) ==
  LET styled == IF self.styleIsAllUppercase THEN upper(string) ELSE string
      padded == [i \in 1..self.curr_column |-> 32] \o styled
      wrapped == _word_wrap(padded, self._columns - 1)
      buffered == SubSeq(wrapped, self.curr_column + 1, Len(wrapped))
  IN __unbuffered_write(self,
                        IF self.buffer_mode THEN buffered ELSE styled,
                        keys, <<>>)

----------------------------------------------------------------------------
(* zstring.py: the ZSCII translator. Unicode characters are code points,   *)
(* strings are sequences of them.                                          *)

\* ZsciiTranslator.DEFAULT_UTT
DEFAULT_UTT ==
  <<
    228, 246, 252, 196, 214, 220, 223, 187, 171, 235, 239, 255, 203,
    207, 225, 233, 237, 243, 250, 253, 193, 201, 205, 211, 218, 221,
    224, 232, 236, 242, 249, 192, 200, 204, 210, 217, 226, 234, 238,
    244, 251, 194, 202, 206, 212, 219, 229, 197, 248, 216, 227, 241,
    245, 195, 209, 213, 230, 198, 231, 199, 254, 240, 222, 208, 163,
    339, 338, 161, 191
  >>

\* the values of ZsciiTranslator.Input
InputCodes == {8, 27} \cup (129..154)

\* ZsciiTranslator._load_unicode_table: the table it adds, none unless the
\* version is 5; the branch for a table of the story uses the unbound name
\* ext_table
_load_unicode_table(m) ==
  IF version # 5 THEN Ok(m, <<>>)
  ELSE Bind(read_word(m, 54), LAMBDA ext_table_addr :
         IF ext_table_addr.ret = 0 THEN Ok(m, DEFAULT_UTT)
         ELSE Bind(read_word(m, ext_table_addr.ret), LAMBDA words :
                IF words.ret < 3 THEN Ok(m, DEFAULT_UTT)
                ELSE Bind(read_word(m, ext_table_addr.ret + 6), LAMBDA utt :
                       IF utt.ret = 0 THEN Ok(m, DEFAULT_UTT)
                       ELSE Bind(__getitem__(m, ext_table_addr.ret),
                                 LAMBDA utt_len : Raise("NameError", m)))))

\* ZsciiTranslator.__init__: _output_table, from ZSCII codes to strings
_output_table(m) ==
  LET utt == _load_unicode_table(m).ret
  IN [c \in {0, 10} \cup (32..126) \cup (155..(154 + Len(utt))) |->
        IF c = 0 THEN <<>>
        ELSE IF c <= 126 THEN <<c>>
        ELSE <<utt[c - 154]>>]

\* ZsciiTranslator.__init__: _input_table, from the keys <<"u", character>>
\* and <<"i", number>> to ZSCII codes
_input_table(m) ==
  LET utt == _load_unicode_table(m).ret
      codes == InputCodes \cup (IF version = 5 THEN {254} ELSE {})
  IN [key \in {<<"u", 10>>} \cup {<<"u", c>> : c \in 32..126}
               \cup {<<"u", utt[i]>> : i \in 1..Len(utt)}
               \cup {<<"i", code>> : code \in codes} |->
        IF key[1] = "i" THEN key[2]
        ELSE IF key[2] <= 126 THEN key[2]
        ELSE 154 + CHOOSE i \in 1..Len(utt) :
                     /\ utt[i] = key[2]
                     /\ \A j \in (i + 1)..Len(utt) : utt[j] # key[2]]

\* ZsciiTranslator.ztou
ztou(m, index) ==
  IF index \in DOMAIN _output_table(m) THEN Ok(m, _output_table(m)[index])
  ELSE Raise("IndexError", m)

\* ZsciiTranslator.utoz
utoz(m, char) ==
  IF char \in DOMAIN _input_table(m) THEN Ok(m, _input_table(m)[char])
  ELSE Raise("IndexError", m)

\* ZStringTranslator.get: the Z-characters of the string at addr, three to a
\* word (bits 14..10, 9..5 and 4..0), up to the word whose bit 15 is set
RECURSIVE ZStringTranslator_get(_, _)
ZStringTranslator_get(m, addr) ==
  LET word == read_word(m, addr)
      chars == <<Shr(word.ret, 10) % 32, Shr(word.ret, 5) % 32,
                 word.ret % 32>>
  IN IF word.fault # "none" THEN word
     ELSE IF BitField__getitem__(word.ret, 15) = 1 THEN Ok(m, chars)
     ELSE LET rest == ZStringTranslator_get(m, addr + 2)
          IN IF rest.fault # "none" THEN rest
             ELSE Ok(m, chars \o rest.ret)

\* ZCharTranslator.DEFAULT_A0, DEFAULT_A1, DEFAULT_A2 and DEFAULT_A2_V5
DEFAULT_A0 == [i \in 1..26 |-> 96 + i]
DEFAULT_A1 == [i \in 1..26 |-> 64 + i]
DEFAULT_A2 ==
  <<48, 49, 50, 51, 52, 53, 54, 55, 56, 57, 46, 44, 33, 63, 95, 35, 39, 34,
    47, 92, 60, 45, 58, 40, 41>>
DEFAULT_A2_V5 ==
  <<10, 48, 49, 50, 51, 52, 53, 54, 55, 56, 57, 46, 44, 33, 63, 95, 35, 39,
    34, 47, 92, 45, 58, 40, 41>>

\* ZCharTranslator.ALPHA and ALPHA_V5
ALPHA == <<DEFAULT_A0, DEFAULT_A1, DEFAULT_A2>>
ALPHA_V5 == <<DEFAULT_A0, DEFAULT_A1, DEFAULT_A2_V5>>

\* ZCharTranslator._load_custom_alphabet; the empty list stands for the None
\* it returns when byte 0x34 is zero
_load_custom_alphabet(m) ==
  Bind(__getitem__(m, 52), LAMBDA high :
    IF high.ret = 0 THEN Ok(m, <<>>)
    ELSE Bind(read_word(m, 52), LAMBDA alph_addr :
           Bind(__getslice__(m, alph_addr.ret, alph_addr.ret + 78),
                LAMBDA alphabet :
                  Ok(m, <<SubSeq(alphabet.ret, 1, 26),
                          SubSeq(alphabet.ret, 27, 52),
                          SubSeq(alphabet.ret, 53, 78)>>))))

\* ZCharTranslator.__init__: the alphabets
_alphabet(m) ==
  IF version = 5
  THEN Bind(_load_custom_alphabet(m), LAMBDA custom :
         IF custom.ret = <<>> THEN Ok(m, ALPHA_V5) ELSE custom)
  ELSE Ok(m, ALPHA)

\* ZCharTranslator._load_specials: the handler of the special Z-character c,
\* <<"none">> for the other Z-characters
_specials(c) ==
  IF version = 1
  THEN CASE c = 1 -> <<"newline">>
         [] c = 2 -> <<"shift_alphabet", 1, FALSE>>
         [] c = 3 -> <<"shift_alphabet", -1, FALSE>>
         [] c = 4 -> <<"shift_alphabet", 1, TRUE>>
         [] c = 5 -> <<"shift_alphabet", -1, TRUE>>
         [] OTHER -> <<"none">>
  ELSE IF version = 2
  THEN CASE c = 1 -> <<"abbreviation", 0>>
         [] c = 2 -> <<"shift_alphabet", 1, FALSE>>
         [] c = 3 -> <<"shift_alphabet", -1, FALSE>>
         [] c = 4 -> <<"shift_alphabet", 1, TRUE>>
         [] c = 5 -> <<"shift_alphabet", -1, TRUE>>
         [] OTHER -> <<"none">>
  ELSE CASE c = 1 -> <<"abbreviation", 0>>
         [] c = 2 -> <<"abbreviation", 1>>
         [] c = 3 -> <<"abbreviation", 2>>
         [] c = 4 -> <<"shift_alphabet", 1, FALSE>>
         [] c = 5 -> <<"shift_alphabet", -1, FALSE>>
         [] OTHER -> <<"none">>

\* the state dictionary of ZCharTranslator.get before the first Z-character;
\* state_handler is <<"none">> while the key is absent, and zscii_char is
\* None while that key is absent
zchar_state(allow_abbreviations) ==
  [curr_alpha |-> 0, prev_alpha |-> 0, zscii |-> <<>>,
   allow_abbreviations |-> allow_abbreviations,
   state_handler |-> <<"none">>, zscii_char |-> None, fault |-> "none"]

\* ZCharTranslator._special_zscii on the Z-character char
_special_zscii(state, char) ==
  IF state.zscii_char = None THEN [state EXCEPT !.zscii_char = char]
  ELSE [state EXCEPT !.zscii = Append(@, state.zscii_char * 32 + char),
                     !.zscii_char = None,
                     !.state_handler = <<"none">>]

\* one turn of the loop of ZCharTranslator.get on the Z-character c, with
\* the abbreviations and the alphabets of the translator
zchar_step(state, c, abbrevs, alphabet) ==
  LET special == _specials(c)
  IN IF state.state_handler[1] = "write_abbreviation"
     THEN [state EXCEPT
             !.zscii = @ \o abbrevs[<<state.state_handler[2], c>>],
             !.state_handler = <<"none">>]
     ELSE IF state.state_handler[1] = "_special_zscii"
     THEN _special_zscii(state, c)
     ELSE IF special[1] = "newline"
     THEN [state EXCEPT !.zscii = Append(@, 13)]
     ELSE IF special[1] = "shift_alphabet"
     THEN LET shifted == (state.curr_alpha + special[2]) % 3
          IN [state EXCEPT !.curr_alpha = shifted,
                           !.prev_alpha = IF special[3] THEN shifted ELSE @]
     ELSE IF special[1] = "abbreviation"
     THEN (IF ~state.allow_abbreviations
           THEN [state EXCEPT !.fault = "ZStringIllegalAbbrevInString"]
           ELSE [state EXCEPT
                   !.state_handler = <<"write_abbreviation", special[2]>>])
     ELSE IF state.curr_alpha = 2 /\ c = 6
     THEN [state EXCEPT !.state_handler = <<"_special_zscii">>]
     ELSE LET z == IF c = 0 THEN 32
                   ELSE IF state.curr_alpha = 2 THEN alphabet[3][c - 6]
                   ELSE alphabet[state.curr_alpha + 1][c - 5]
          IN [state EXCEPT !.zscii = Append(@, z),
                           !.curr_alpha = state.prev_alpha]

\* the loop of ZCharTranslator.get from the state it has reached
RECURSIVE zchar_loop(_, _, _, _)
zchar_loop(state, zstr, abbrevs, alphabet) ==
  IF state.fault # "none" \/ zstr = <<>> THEN state
  ELSE zchar_loop(zchar_step(state, Head(zstr), abbrevs, alphabet),
                  Tail(zstr), abbrevs, alphabet)

\* ZCharTranslator.get: the ZSCII codes of the Z-characters zstr
ZCharTranslator_get(m, zstr, allow_abbreviations, abbrevs, alphabet) ==
  LET state == zchar_loop(zchar_state(allow_abbreviations), zstr, abbrevs,
                          alphabet)
  IN IF state.fault # "none" THEN Raise(state.fault, m)
     ELSE Ok(m, state.zscii)

\* the keys of ZCharTranslator._abbrevs, in the order _load_abbrev_tables
\* fills them
abbrev_keys ==
  IF version = 1 THEN <<>>
  ELSE [k \in 1..(IF version >= 3 THEN 96 ELSE 32) |->
          <<(k - 1) \div 32, (k - 1) % 32>>]

\* _load_subtable of ZCharTranslator._load_abbrev_tables, for one key
_load_subtable(m, alphabet, num, i) ==
  Bind(read_word(m, 24), LAMBDA abbrev_base :
    Bind(read_word(m, abbrev_base.ret + num * 64 + i * 2), LAMBDA zaddr :
      Bind(word_address(m, zaddr.ret), LAMBDA addr :
        Bind(ZStringTranslator_get(m, addr.ret), LAMBDA zstr :
          ZCharTranslator_get(m, zstr.ret, FALSE, <<>>, alphabet)))))

\* ZCharTranslator._load_abbrev_tables: the abbreviations by key, or the
\* exception of the first key that raises one
_load_abbrev_tables(m, alphabet) ==
  LET loaded == [k \in DOMAIN abbrev_keys |->
                   _load_subtable(m, alphabet, abbrev_keys[k][1],
                                  abbrev_keys[k][2])]
      failed == {k \in DOMAIN abbrev_keys : loaded[k].fault # "none"}
  IN IF version = 1 THEN Ok(m, <<>>)
     ELSE Bind(read_word(m, 24), LAMBDA abbrev_base :
            IF failed # {}
            THEN loaded[CHOOSE k \in failed : \A j \in failed : k <= j]
            ELSE Ok(m, [key \in {abbrev_keys[k] : k \in DOMAIN abbrev_keys}
                          |-> loaded[CHOOSE k \in DOMAIN abbrev_keys :
                                       abbrev_keys[k] = key].ret]))

\* ZsciiTranslator.get: the ztou of every code, joined
RECURSIVE ZsciiTranslator_get(_, _)
ZsciiTranslator_get(m, zscii) ==
  IF zscii = <<>> THEN Ok(m, <<>>)
  ELSE Bind(ztou(m, Head(zscii)), LAMBDA char :
         LET rest == ZsciiTranslator_get(m, Tail(zscii))
         IN IF rest.fault # "none" THEN rest
            ELSE Ok(m, char.ret \o rest.ret))

\* ZStringFactory.__init__: the exception it raises, or the alphabets and
\* the abbreviations of its ZCharTranslator
ZStringFactory__init__(m) ==
  Bind(_alphabet(m), LAMBDA alphabet :
    Bind(_load_abbrev_tables(m, alphabet.ret), LAMBDA abbrevs :
      Bind(_load_unicode_table(m), LAMBDA utt :
        Ok(m, [_alphabet |-> alphabet.ret, _abbrevs |-> abbrevs.ret]))))

\* ZStringFactory.get of the factory zchr at addr
ZStringFactory_get(m, zchr, addr) ==
  Bind(ZStringTranslator_get(m, addr), LAMBDA zstr :
    Bind(ZCharTranslator_get(m, zstr.ret, TRUE, zchr._abbrevs,
                             zchr._alphabet),
         LAMBDA zscii : ZsciiTranslator_get(m, zscii.ret)))

----------------------------------------------------------------------------
(* zlexer.py: the dictionary and the tokeniser. A Python dictionary is a   *)
(* function from its keys.                                                 *)

\* ZLexer._parse_dict_header: number of entries, entry length, separators
\* and address of the first entry
_parse_dict_header(m, address) ==
  Bind(__getitem__(m, address), LAMBDA num_separators :
    Bind(__getslice__(m, address + 1, address + num_separators.ret),
         LAMBDA separators :
      Bind(__getitem__(m, address + 1 + num_separators.ret),
           LAMBDA entry_length :
        Bind(read_word(m, address + 2 + num_separators.ret),
             LAMBDA num_entries :
               Ok(m, <<num_entries.ret, entry_length.ret, separators.ret,
                       address + 4 + num_separators.ret>>)))))

\* the characters \w of re matches without the UNICODE flag
WordChars == (48..57) \cup (65..90) \cup {95} \cup (97..122)

\* the end of the match of \w+ that starts at position i of string
RECURSIVE word_end(_, _)
word_end(string, i) ==
  IF i < Len(string) /\ string[i + 1] \in WordChars
  THEN word_end(string, i + 1)
  ELSE i

\* re.findall of _tokenise_string from position i of string: at every
\* position the class of the separators is tried before \w+; the
\* separators of the dictionaries below are characters that a class takes
\* literally
RECURSIVE findall(_, _, _)
findall(class, string, i) ==
  IF i > Len(string) THEN <<>>
  ELSE IF string[i] \in class
  THEN <<SubSeq(string, i, i)>> \o findall(class, string, i + 1)
  ELSE IF string[i] \in WordChars
  THEN <<SubSeq(string, i, word_end(string, i))>>
       \o findall(class, string, word_end(string, i) + 1)
  ELSE findall(class, string, i + 1)

\* the concatenation of the strings of a list
RECURSIVE join(_)
join(strings) ==
  IF strings = <<>> THEN <<>> ELSE Head(strings) \o join(Tail(strings))

\* ZLexer._tokenise_string; separators is a list of strings, and with no
\* character in sep_string the expression is \w+ alone
_tokenise_string(string, separators) ==
  LET sep_string == join(separators)
  IN findall({sep_string[j] : j \in DOMAIN sep_string}, string, 1)

\* the loop of ZLexer.get_dictionary from entry i at addr, dict being the
\* dictionary so far
RECURSIVE get_dictionary_loop(_, _, _, _, _, _, _)
get_dictionary_loop(m, zchr, dict, i, num_entries, addr, entry_length) ==
  IF i >= num_entries THEN Ok(m, dict)
  ELSE LET text_key == ZStringFactory_get(m, zchr, addr)
       IN IF text_key.fault # "none" THEN text_key
          ELSE get_dictionary_loop(
                 m, zchr,
                 [k \in DOMAIN dict \cup {text_key.ret} |->
                    IF k = text_key.ret THEN addr ELSE dict[k]],
                 i + 1, num_entries, addr + entry_length, entry_length)

\* ZLexer.get_dictionary
get_dictionary(m, zchr, address) ==
  Bind(_parse_dict_header(m, address), LAMBDA header :
    get_dictionary_loop(m, zchr, <<>>, 0, header.ret[1], header.ret[4],
                        header.ret[2]))

\* ZLexer.__init__: the string factory, the separators and the dictionary
\* of the story
ZLexer__init__(m) ==
  Bind(ZStringFactory__init__(m), LAMBDA zchr :
    Bind(_load_unicode_table(m), LAMBDA utt :
      Bind(read_word(m, 8), LAMBDA dict_addr :
        Bind(_parse_dict_header(m, dict_addr.ret), LAMBDA header :
          Bind(get_dictionary(m, zchr.ret, dict_addr.ret), LAMBDA dict :
            Ok(m, [_stringfactory |-> zchr.ret,
                   _num_entries |-> header.ret[1],
                   _entry_length |-> header.ret[2],
                   _separators |-> header.ret[3],
                   _dict |-> dict.ret]))))))

\* the loop of parse_input that converts the separators
RECURSIVE convert_separators(_, _)
convert_separators(m, zseparators) ==
  IF zseparators = <<>> THEN Ok(m, <<>>)
  ELSE Bind(ztou(m, Head(zseparators)), LAMBDA char :
         LET rest == convert_separators(m, Tail(zseparators))
         IN IF rest.fault # "none" THEN rest
            ELSE Ok(m, <<char.ret>> \o rest.ret))

\* ZLexer.parse_input of the lexer self; dict_addr is None for the
\* dictionary of the story
parse_input(m, self, string, dict_addr) ==
  LET header == IF dict_addr = None THEN Ok(m, <<0, 0, self._separators, 0>>)
                ELSE _parse_dict_header(m, dict_addr)
      dict == IF dict_addr = None THEN Ok(m, self._dict)
              ELSE get_dictionary(m, self._stringfactory, dict_addr)
  IN Bind(header, LAMBDA parsed :
       Bind(dict, LAMBDA d :
         Bind(convert_separators(m, parsed.ret[3]), LAMBDA separators :
           LET token_list == _tokenise_string(string, separators.ret)
           IN Ok(m, [t \in DOMAIN token_list |->
                       <<token_list[t],
                         IF token_list[t] \in DOMAIN d.ret
                         THEN d.ret[token_list[t]] ELSE 0>>]))))

----------------------------------------------------------------------------
(* The story images the specifications start from.                         *)

\* the routine of the story image: its header is at the start of static
\* memory and declares RoutineLocals locals, local i initially 11 * i
RoutineAddr == StaticStart
RoutineLocals == 2

\* where execution starts: header word 0x06 of the story image
InitialPc == StaticStart + 8

\* a story file of TotalSize bytes: the header fields that ZMemory and
\* ZMachine read, the routine header, and zero everywhere else
StoryImage(ver) ==
  [a \in 0..(TotalSize - 1) |->
     CASE a = 0 -> ver
       [] a = 6 -> InitialPc \div 256
       [] a = 7 -> InitialPc % 256
       [] a = 12 -> GlobalsStart \div 256
       [] a = 13 -> GlobalsStart % 256
       [] a = 14 -> StaticStart \div 256
       [] a = 15 -> StaticStart % 256
       [] a = RoutineAddr -> RoutineLocals
       [] a > RoutineAddr /\ a <= RoutineAddr + 2 * RoutineLocals ->
            IF (a - RoutineAddr) % 2 = 0 THEN 11 * ((a - RoutineAddr) \div 2)
            ELSE 0
       [] OTHER -> 0]

\* the call that lastOp records before any call is made; lastOp holds the
\* call's name, its arguments a, b and v, the exception it raised, the value
\* it returned and the call stack before it
NoOp == [op |-> "init", a |-> 0, b |-> 0, v |-> 0, fault |-> "none",
         ret |-> None, before |-> <<>>]

\* ZStackBottom, as the only entry of a new ZStackManager's call stack
ZStackBottom ==
  [kind |-> "bottom", start_addr |-> 0, return_addr |-> None,
   program_counter |-> 0, stack |-> <<>>, local_vars |-> <<>>,
   num_local_vars |-> 0, caller_stack |-> <<>>, call_pc |-> 0]

\* ZMachine.__init__ on a story image: memory, decoder and stack manager
\* the machine constructed from a story of size bytes, of which story holds
\* the bytes that the calls of the specification reach
MachineInitUi(story, size, ui_screen) ==
  /\ layout_fault(size, init_static_start(story), init_version(story)) = "none"
  /\ memory = story
  /\ version = init_version(story)
  /\ total_size = size
  /\ static_start = init_static_start(story)
  /\ static_end = static_end_of(size)
  /\ global_variable_start = init_global_variable_start(story)
  /\ call_stack = <<ZStackBottom>>
  /\ program_counter = story[6] * 256 + story[7]
  /\ pristine_mem = story
  /\ machine_call_stack = <<ZStackBottom>>
  /\ stack_replaced = FALSE
  /\ seen_mem_or_stks = FALSE
  /\ screen = ui_screen
  /\ lastOp = NoOp
  /\ nops = 0

\* the machine with the screen of create_zui
MachineInitSized(story, size) ==
  MachineInitUi(story, size, TrivialScreen__init__)

MachineInit(story) == MachineInitSized(story, init_total_size(story))

----------------------------------------------------------------------------
(* The memory specification: calls on the ZMemory of a loaded story.       *)

\* the byte and the word that the calls write
ByteVals == {165}
WordVals == {4660}

\* the addresses the direct reads and writes are tried on: both sides of
\* every boundary of the header, dynamic memory, static memory and the image
ProbeAddrs == {-1, 0, 16, 63, 64, StaticStart - 1, StaticStart,
               StaticStart + 1, TotalSize - 2, TotalSize - 1, TotalSize}

\* header addresses and their two neighbours
HeaderAddrs == -1..64

InitMem == \E ver \in Versions : MachineInit(StoryImage(ver))

\* record the outcome r of the call (op, a, b, v) on the memory
MemCall(op, a, b, v, r) ==
  /\ nops < MaxMemOps
  /\ memory' = r.memory
  /\ lastOp' = [op |-> op, a |-> a, b |-> b, v |-> v, fault |-> r.fault,
                ret |-> r.ret, before |-> call_stack]
  /\ nops' = nops + 1
  /\ UNCHANGED <<version, total_size, static_start, static_end,
                 global_variable_start, call_stack, program_counter>>
  /\ UNCHANGED qvars
  /\ UNCHANGED screen

SetItem ==
  \E a \in ProbeAddrs, v \in ByteVals :
    MemCall("setitem", a, 0, v, __setitem__(memory, a, v))

SetSlice ==
  \E a \in ProbeAddrs, n \in 1..2, v \in ByteVals :
    MemCall("setslice", a, a + n, v,
            __setslice__(memory, a, a + n, [i \in 1..n |-> v]))

GetItem ==
  \E a \in ProbeAddrs : MemCall("getitem", a, 0, 0, __getitem__(memory, a))

ReadWord ==
  \E a \in ProbeAddrs : MemCall("read_word", a, 0, 0, read_word(memory, a))

WriteWord ==
  \E a \in ProbeAddrs, v \in WordVals :
    MemCall("write_word", a, 0, v, write_word(memory, a, v))

GameSetHeader ==
  \E a \in HeaderAddrs, v \in ByteVals :
    MemCall("game_set_header", a, 0, v, game_set_header(memory, a, v))

InterpreterSetHeader ==
  \E a \in HeaderAddrs, v \in ByteVals :
    MemCall("interpreter_set_header", a, 0, v,
            interpreter_set_header(memory, a, v))

NextMem ==
  \/ SetItem
  \/ SetSlice
  \/ GetItem
  \/ ReadWord
  \/ WriteWord
  \/ GameSetHeader
  \/ InterpreterSetHeader

SpecMem == InitMem /\ [][NextMem]_vars

----------------------------------------------------------------------------
(* The stack specifications: calls on the stack manager and on the CPU's   *)
(* variable access of a loaded story.  SpecCall nests routine calls,       *)
(* SpecVar reads and writes variables, SpecLocals misuses the stack.       *)

\* routine frames on the call stack at most
MaxDepth == 2
\* calls per behaviour of each stack specification
MaxCallOps == 5
MaxVarOps == 5
MaxLocalOps == 3

\* result dispositions: discard, the stack, locals 1 and 10, global 16
Dispositions == {None, 0, 1, 10, 16}
ArgLists == {<<>>, <<7>>}
\* values pushed and written
StackVals == {5, 6}
\* values returned by a routine
ReturnVals == {300}
\* variable numbers read and written: the stack, local 1, global 16
VarNums == {0, 1, 16}
\* local indexes: declared ones, the first undeclared one, the last of the
\* 15 slots, and the two beyond
LocalIndexes == {0, RoutineLocals, 14, 15, 16}

\* one version whose routines carry initial local values, and version 5
StackVersions == {3, 5}

InitStack == \E ver \in StackVersions : MachineInit(StoryImage(ver))

\* record the outcome r of the call (op, a, b, v) on the stack manager, the
\* decoder or the CPU; pc is the program counter the call leaves
Step(max, op, a, b, v, r, pc) ==
  /\ nops < max
  /\ call_stack' = r.call_stack
  /\ memory' = r.memory
  /\ program_counter' = pc
  /\ lastOp' = [op |-> op, a |-> a, b |-> b, v |-> v, fault |-> r.fault,
                ret |-> r.ret, before |-> call_stack]
  /\ nops' = nops + 1
  /\ machine_call_stack' = IF stack_replaced THEN machine_call_stack
                           ELSE r.call_stack
  /\ UNCHANGED <<version, total_size, static_start, static_end,
                 global_variable_start, pristine_mem, stack_replaced,
                 seen_mem_or_stks, screen>>

\* start_routine as ZCpu._call and op_call use it: the caller's program
\* counter is saved and the decoder continues at the address returned
StartRoutine(max, d, args) ==
  LET r == start_routine(call_stack, memory, RoutineAddr, d,
                         program_counter, args)
  IN /\ Len(call_stack) <= MaxDepth
     /\ Step(max, "start_routine", d, program_counter, Len(args), r,
                  IF r.fault = "none" THEN r.ret ELSE program_counter)

\* finish_routine as ZCpu._branch uses it: the decoder continues at the
\* address returned
FinishRoutine(max, v) ==
  LET r == finish_routine(call_stack, memory, v)
  IN Step(max, "finish_routine", 0, 0, v, r,
               IF r.fault = "none" THEN r.ret ELSE program_counter)

PushStack(max, v) ==
  Step(max, "push_stack", 0, 0, v, push_stack(call_stack, memory, v),
            program_counter)

PopStack(max) ==
  Step(max, "pop_stack", 0, 0, 0, pop_stack(call_stack, memory),
            program_counter)

GetLocalVariable(max, i) ==
  Step(max, "get_local_variable", i, 0, 0,
            get_local_variable(call_stack, memory, i), program_counter)

SetLocalVariable(max, i, v) ==
  Step(max, "set_local_variable", i, 0, v,
            set_local_variable(call_stack, memory, i, v), program_counter)

ReadVariable(max, addr) ==
  Step(max, "read_variable", addr, 0, 0,
            _read_variable(call_stack, memory, addr), program_counter)

WriteResult(max, v, addr) ==
  LET r == _write_result(call_stack, memory, program_counter, v, addr)
  IN Step(max, "write_result", addr, 0, v, r, r.pc)

NextCall ==
  \/ \E d \in Dispositions, args \in ArgLists :
       StartRoutine(MaxCallOps, d, args)
  \/ \E v \in ReturnVals : FinishRoutine(MaxCallOps, v)
  \/ \E v \in StackVals : PushStack(MaxCallOps, v)
  \/ PopStack(MaxCallOps)

SpecCall == InitStack /\ [][NextCall]_vars

NextVar ==
  \/ StartRoutine(MaxVarOps, None, <<>>)
  \/ \E v \in StackVals, addr \in VarNums : WriteResult(MaxVarOps, v, addr)
  \/ \E addr \in VarNums : ReadVariable(MaxVarOps, addr)

SpecVar == InitStack /\ [][NextVar]_vars

NextLocals ==
  \/ StartRoutine(MaxLocalOps, None, <<>>)
  \/ \E v \in StackVals : PushStack(MaxLocalOps, v)
  \/ PopStack(MaxLocalOps)
  \/ \E i \in LocalIndexes : GetLocalVariable(MaxLocalOps, i)
  \/ \E i \in LocalIndexes, v \in StackVals :
       SetLocalVariable(MaxLocalOps, i, v)

SpecLocals == InitStack /\ [][NextLocals]_vars

----------------------------------------------------------------------------
(* The decoder specification: a story whose last bytes are an instruction  *)
(* or a branch descriptor, with execution starting there.                  *)

\* decoder calls per behaviour
MaxDecodeOps == 2

\* a 1-byte branch descriptor: bit 7 the sense, bit 6 set, a 6-bit offset
Enc1(sense, o) == <<sense * 128 + 64 + o>>

\* a 2-byte branch descriptor: bit 7 the sense, bit 6 clear, the offset as a
\* 14-bit two's-complement number
Enc2(sense, o) ==
  <<sense * 128 + (((o + 16384) % 16384) \div 256), ((o + 16384) % 16384) % 256>>

Senses == {0, 1}
Offsets1 == {0, 1, 5, 63}
Offsets2 == {-8192, -200, -1, 0, 2, 200, 8191}

\* instructions, one or more per form of the first opcode byte
Instructions ==
  { <<20, 3, 4>>,             \* long 2OP, small small: add
    <<84, 1, 4>>,             \* long 2OP, variable small
    <<120, 1, 2>>,            \* long 2OP, variable variable
    <<140, 1, 44>>,           \* short 1OP, large constant: jump
    <<144, 5>>,               \* short 1OP, small constant: jz
    <<165, 1>>,               \* short 1OP, variable: inc
    <<176>>,                  \* short 0OP: rtrue
    <<190, 2, 95, 7, 1>>,     \* 0xBE: extended in version 5
    <<193, 95, 7, 9>>,        \* variable form of 2OP 1: je small small
    <<201, 15, 1, 44>>,       \* variable form of 2OP: large, then absent
    <<224, 31, 1, 44, 6>>,    \* VAR: call large small
    <<224, 255>>,             \* VAR: call, no operands
    <<236, 85, 127, 1, 2, 3, 4, 5>>,  \* VAR 12: two types bytes
    <<144, 5, 197>> }         \* jz followed by a 1-byte branch descriptor

CodeSamples ==
  Instructions
    \cup {Enc1(s, o) : s \in Senses, o \in Offsets1}
    \cup {Enc2(s, o) : s \in Senses, o \in Offsets2}
    \cup {Enc1(1, 5) \o <<0>>, Enc2(0, -200) \o <<0>>}

\* the story image whose last bytes are code, initial PC at its first byte
CodeImage(ver, code) ==
  LET start == TotalSize - Len(code) IN
  [a \in 0..(TotalSize - 1) |->
     IF a >= start THEN code[a - start + 1]
     ELSE IF a = 6 THEN start \div 256
     ELSE IF a = 7 THEN start % 256
     ELSE StoryImage(ver)[a]]

InitDecode ==
  \E ver \in Versions, code \in CodeSamples :
    MachineInit(CodeImage(ver, code))

GetNextInstruction ==
  Step(MaxDecodeOps, "get_next_instruction", program_counter, 0, 0,
       get_next_instruction(call_stack, memory, program_counter),
       get_next_instruction(call_stack, memory, program_counter).pc)

GetBranchOffset ==
  Step(MaxDecodeOps, "get_branch_offset", program_counter, 0, 0,
       get_branch_offset(call_stack, memory, program_counter),
       get_branch_offset(call_stack, memory, program_counter).pc)

NextDecode ==
  \/ GetNextInstruction
  \/ GetBranchOffset

SpecDecode == InitDecode /\ [][NextDecode]_vars

----------------------------------------------------------------------------
(* The arithmetic specification: the arithmetic opcodes of a loaded story, *)
(* at top level and inside a routine.                                      *)

\* calls per behaviour
MaxArithOps == 2

\* 16-bit operands: both ends of the positive and of the negative range
ArithVals == {0, 1, 2, 32767, 32768, 65535}

\* the operands of op_mul: those whose products stay within 32 bits
MulVals == {0, 1, 2, 3, 32767, 65535}

OpAdd ==
  \E a \in ArithVals, b \in ArithVals :
    Step(MaxArithOps, "op_add", a, b, 0,
         op_add(call_stack, memory, program_counter, a, b),
         op_add(call_stack, memory, program_counter, a, b).pc)

OpSub ==
  \E a \in ArithVals, b \in ArithVals :
    Step(MaxArithOps, "op_sub", a, b, 0,
         op_sub(call_stack, memory, program_counter, a, b),
         op_sub(call_stack, memory, program_counter, a, b).pc)

OpMul ==
  \E a \in MulVals, b \in MulVals :
    Step(MaxArithOps, "op_mul", a, b, 0,
         op_mul(call_stack, memory, program_counter, a, b),
         op_mul(call_stack, memory, program_counter, a, b).pc)

OpDiv ==
  \E a \in ArithVals, b \in ArithVals :
    Step(MaxArithOps, "op_div", a, b, program_counter,
         op_div(call_stack, memory, program_counter, a, b),
         op_div(call_stack, memory, program_counter, a, b).pc)

NextArith ==
  \/ StartRoutine(MaxArithOps, None, <<>>)
  \/ OpAdd
  \/ OpSub
  \/ OpMul
  \/ OpDiv

SpecArith == InitStack /\ [][NextArith]_vars

----------------------------------------------------------------------------
(* The opcode specifications: the call opcodes, op_store and op_je of a    *)
(* loaded story.                                                           *)

\* calls per behaviour
MaxOpCallOps == 3
MaxStoreOps == 3
MaxBranchOps == 2

\* packed routine addresses: 0, and that of the story's routine
PackedRoutine == IF version <= 3 THEN RoutineAddr \div 2 ELSE RoutineAddr \div 4
RoutineOperands == {0, PackedRoutine}

OpCall ==
  \E ra \in RoutineOperands, args \in ArgLists :
    Step(MaxOpCallOps, "op_call", ra, args, TRUE,
         op_call(call_stack, memory, program_counter, ra, args),
         op_call(call_stack, memory, program_counter, ra, args).pc)

OpCall1s ==
  \E ra \in RoutineOperands :
    Step(MaxOpCallOps, "op_call_1s", ra, <<>>, TRUE,
         op_call_1s(call_stack, memory, program_counter, ra),
         op_call_1s(call_stack, memory, program_counter, ra).pc)

OpCall1n ==
  \E ra \in RoutineOperands :
    Step(MaxOpCallOps, "op_call_1n", ra, <<>>, FALSE,
         op_call_1n(call_stack, memory, program_counter, ra),
         op_call_1n(call_stack, memory, program_counter, ra).pc)

NextOpCall ==
  \/ OpCall
  \/ OpCall1s
  \/ OpCall1n

SpecOpCall == InitStack /\ [][NextOpCall]_vars

\* the variables and the values op_store is given
StoreVars == {0, 1, 2, 16, 17}
StoreVals == {300, 32896}

OpStore ==
  \E variable \in StoreVars, value \in StoreVals :
    Step(MaxStoreOps, "op_store", variable, 0, value,
         op_store(call_stack, memory, program_counter, variable, value),
         op_store(call_stack, memory, program_counter, variable, value).pc)

NextStore ==
  \/ StartRoutine(MaxStoreOps, None, <<>>)
  \/ PushStack(MaxStoreOps, 5)
  \/ OpStore

SpecStore == InitStack /\ [][NextStore]_vars

\* the operands op_je is given: one to four
JeOperands ==
  {<<5>>, <<5, 5>>, <<5, 6>>, <<5, 6, 5>>, <<5, 6, 7>>, <<5, 6, 7, 5>>,
   <<5, 6, 7, 8>>}

\* branch descriptors followed by more code
BranchSamples ==
  {Enc1(s, o) \o <<0, 0, 0, 0>> : s \in Senses, o \in {3, 5}}

InitBranch ==
  \E ver \in Versions, code \in BranchSamples :
    MachineInit(CodeImage(ver, code))

OpJe ==
  \E operands \in JeOperands :
    Step(MaxBranchOps, "op_je", operands, 0, 0,
         op_je(call_stack, memory, program_counter, operands),
         op_je(call_stack, memory, program_counter, operands).pc)

NextBranch ==
  \/ OpJe
  \/ StartRoutine(MaxBranchOps, None, <<>>)

SpecBranch == InitBranch /\ [][NextBranch]_vars

----------------------------------------------------------------------------
(* The handler specification: look-ups in the opcode table of a loaded     *)
(* story of every version.                                                 *)

\* look-ups per behaviour
MaxHandlerOps == 1

\* the opcode classes, and opcode numbers up to one past the longest table
OpcodeClasses == {"2OP", "1OP", "0OP", "VAR", "EXT"}
OpcodeNumbers == 0..32

GetHandler ==
  \E opcode_class \in OpcodeClasses, opcode_number \in OpcodeNumbers :
    /\ nops < MaxHandlerOps
    /\ MemCall("_get_handler", opcode_class, opcode_number, 0,
               _get_handler(memory, opcode_class, opcode_number))

NextHandler == GetHandler

SpecHandler == InitMem /\ [][NextHandler]_vars

----------------------------------------------------------------------------
(* The object specification: calls on the ZObjectParser of a story whose   *)
(* object table holds a well-formed tree.                                  *)

\* calls per behaviour, and the objects of the table
MaxObjectOps == 1
NumObjects == 4

Objects == 1..NumObjects
ObjectVersions == {3, 5}

\* the layout of the story: property defaults after the header, the object
\* table after them, static memory after the table
PropDefaults == 64
ObjectStatic == PropDefaults + 126 + 14 * NumObjects
ObjectSize == ObjectStatic + 2

\* the parent maps without a cycle
RECURSIVE ReachesRoot(_, _, _)
ReachesRoot(par, o, fuel) ==
  IF o = 0 THEN TRUE
  ELSE IF fuel = 0 THEN FALSE
  ELSE ReachesRoot(par, par[o], fuel - 1)

ParentMaps ==
  {par \in [Objects -> 0..NumObjects] :
     \A o \in Objects : ReachesRoot(par, o, NumObjects)}

\* the orders of the objects in the child lists
Orders ==
  {ord \in [Objects -> Objects] :
     \A o1, o2 \in Objects : ord[o1] = ord[o2] => o1 = o2}

\* the first of the objects in set by ord, 0 for none
FirstOf(set, ord) ==
  IF set = {} THEN 0
  ELSE CHOOSE o \in set : \A o2 \in set : ord[o] <= ord[o2]

\* [parent, sibling, child] of every object of the tree of par, the children
\* of an object listed by ord
TreeOf(par, ord) ==
  [o \in Objects |->
     <<par[o],
       IF par[o] = 0 THEN 0
       ELSE FirstOf({o2 \in Objects : par[o2] = par[o] /\ ord[o2] > ord[o]},
                    ord),
       FirstOf({o2 \in Objects : par[o2] = o}, ord)>>]

Trees == {TreeOf(par, ord) : par \in ParentMaps, ord \in Orders}

\* a story whose object table holds tree
ObjectImage(ver, tree) ==
  LET base == PropDefaults + (IF ver <= 3 THEN 62 ELSE 126)
      size == IF ver <= 3 THEN 9 ELSE 14
      field(a) ==
        IF a < base \/ a >= base + size * NumObjects THEN 0
        ELSE LET o == (a - base) \div size + 1
                 off == (a - base) % size
             IN IF ver <= 3
                THEN (IF off \in 4..6 THEN tree[o][off - 3] ELSE 0)
                ELSE (IF off \in {7, 9, 11} THEN tree[o][(off - 5) \div 2]
                      ELSE 0)
  IN [a \in 0..(ObjectSize - 1) |->
        CASE a = 0 -> ver
          [] a = 7 -> PropDefaults
          [] a = 11 -> PropDefaults
          [] a = 13 -> PropDefaults
          [] a = 14 -> ObjectStatic \div 256
          [] a = 15 -> ObjectStatic % 256
          [] OTHER -> field(a)]

ObjectImages ==
  [ver \in ObjectVersions |-> {ObjectImage(ver, tree) : tree \in Trees}]

InitObjects ==
  \E ver \in ObjectVersions :
    \E story \in ObjectImages[ver] : MachineInit(story)

InsertObject ==
  \E parent_object \in Objects, new_child \in Objects :
    /\ nops < MaxObjectOps
    /\ MemCall("insert_object", parent_object, new_child, 0,
               insert_object(memory, parent_object, new_child))

NextObjects == InsertObject

SpecObjects == InitObjects /\ [][NextObjects]_vars

----------------------------------------------------------------------------
(* The attribute specification: the attribute opcodes and get_attribute on *)
(* a story whose objects have some attributes set.                         *)

\* calls per behaviour
MaxAttrOps == 2

\* the values of the attribute bytes of the objects, the objects and the
\* attribute numbers of the calls
AttrBytes == {0, 165, 255}
AttrObjects == {1, 2}
AttrNums == {0, 7, 8, 31, 47}

\* a story without a tree whose objects' attribute bytes all hold byte
AttrImage(ver, byte) ==
  LET base == PropDefaults + (IF ver <= 3 THEN 62 ELSE 126)
      size == IF ver <= 3 THEN 9 ELSE 14
      blank == ObjectImage(ver, [o \in Objects |-> <<0, 0, 0>>])
  IN [a \in DOMAIN blank |->
        IF /\ base <= a
           /\ a < base + size * NumObjects
           /\ (a - base) % size < (IF ver <= 3 THEN 4 ELSE 6)
        THEN byte ELSE blank[a]]

InitAttrs ==
  \E ver \in ObjectVersions, byte \in AttrBytes :
    MachineInit(AttrImage(ver, byte))

GetAttribute ==
  \E objectnum \in AttrObjects, attrnum \in AttrNums :
    /\ nops < MaxAttrOps
    /\ MemCall("get_attribute", objectnum, attrnum, 0,
               get_attribute(memory, objectnum, attrnum))

OpTestAttr ==
  \E objectnum \in AttrObjects, attrnum \in AttrNums :
    Step(MaxAttrOps, "op_test_attr", objectnum, attrnum, 0,
         op_test_attr(call_stack, memory, program_counter,
                      <<objectnum, attrnum>>),
         program_counter)

OpSetAttr ==
  \E objectnum \in AttrObjects, attrnum \in AttrNums :
    Step(MaxAttrOps, "op_set_attr", objectnum, attrnum, 0,
         op_set_attr(call_stack, memory, program_counter,
                     <<objectnum, attrnum>>),
         program_counter)

OpClearAttr ==
  \E objectnum \in AttrObjects, attrnum \in AttrNums :
    Step(MaxAttrOps, "op_clear_attr", objectnum, attrnum, 0,
         op_clear_attr(call_stack, memory, program_counter,
                       <<objectnum, attrnum>>),
         program_counter)

NextAttrs ==
  \/ GetAttribute
  \/ OpTestAttr
  \/ OpSetAttr
  \/ OpClearAttr

SpecAttrs == InitAttrs /\ [][NextAttrs]_vars

----------------------------------------------------------------------------
(* The globals specification: read_global and write_global on the memory   *)
(* of a loaded story.                                                      *)

\* calls per behaviour
MaxGlobalOps == 2

\* the variable numbers and the values of the calls
GlobalNums == {15, 16, 17, 255, 256}
GlobalVals == {0, 1, 127, 128, 255, 256, 4660, 65535}

ReadGlobal ==
  \E varnum \in GlobalNums :
    /\ nops < MaxGlobalOps
    /\ MemCall("read_global", varnum, 0, 0, read_global(memory, varnum))

WriteGlobal ==
  \E varnum \in GlobalNums, value \in GlobalVals :
    /\ nops < MaxGlobalOps
    /\ MemCall("write_global", varnum, 0, value,
               write_global(memory, varnum, value))

NextGlobals ==
  \/ ReadGlobal
  \/ WriteGlobal

SpecGlobals == InitMem /\ [][NextGlobals]_vars

----------------------------------------------------------------------------
(* The high-memory specification: writes to the memory of a story longer   *)
(* than 64 KiB.                                                            *)

\* bytes of the story beyond address 0xFFFF
HighBytes == 4
HighSize == 65536 + HighBytes

HighVersions == {3, 5}

\* the story image, extended by zeros to HighSize bytes; of the zeros, the
\* image holds HighBytes below 0x10000 and those above: no call of this
\* specification reaches the others
HighImage(ver) ==
  [a \in (0..(TotalSize - 1)) \cup ((65536 - HighBytes)..(HighSize - 1)) |->
     IF a < TotalSize THEN StoryImage(ver)[a] ELSE 0]

InitHigh == \E ver \in HighVersions : MachineInitSized(HighImage(ver), HighSize)

\* addresses on both sides of the boundaries of dynamic, static and high
\* memory
HighAddrs == {StaticStart - 1, StaticStart, 65535, 65536, HighSize - 2,
              HighSize}

HighSetItem ==
  \E a \in HighAddrs, v \in ByteVals :
    MemCall("setitem", a, 0, v, __setitem__(memory, a, v))

HighSetSlice ==
  \E a \in HighAddrs, v \in ByteVals :
    MemCall("setslice", a, a + 2, v,
            __setslice__(memory, a, a + 2, <<v, v>>))

HighWriteWord ==
  \E a \in HighAddrs, v \in WordVals :
    MemCall("write_word", a, 0, v, write_word(memory, a, v))

NextHigh ==
  \/ HighSetItem
  \/ HighSetSlice
  \/ HighWriteWord

SpecHigh == InitHigh /\ [][NextHigh]_vars

----------------------------------------------------------------------------
(* The layout specification: the construction of a ZMemory from stories of *)
(* every size and layout.                                                  *)

\* constructions per behaviour
MaxLayoutOps == 1

\* story lengths around the limits, starts of static memory, version bytes
LayoutSizes == {64, 65534, 65535, 65536, 65537, 131072, 131073, 262144,
                262145}
LayoutStarts == {64, 65534, 65535}
LayoutVersions == 0..6

\* ZMemory(story) for a story of size bytes whose header holds sstart and ver
Construct ==
  \E size \in LayoutSizes, sstart \in LayoutStarts, ver \in LayoutVersions :
    /\ nops < MaxLayoutOps
    /\ MemCall("ZMemory", size, sstart, ver,
               IF layout_fault(size, sstart, ver) = "none"
               THEN Ok(memory, None)
               ELSE Raise(layout_fault(size, sstart, ver), memory))

NextLayout == Construct

SpecLayout == InitMem /\ [][NextLayout]_vars

----------------------------------------------------------------------------
(* The run specification: ZCpu.run on a story with code at the initial     *)
(* program counter.                                                        *)

\* runs of the loop per behaviour
MaxRunOps == 1

\* run is called once; the program ends when it ends
Run ==
  /\ lastOp.op # "run"
  /\ Step(MaxRunOps, "run", program_counter, 0, 0,
          ZCpu_run(call_stack, memory, program_counter),
          ZCpu_run(call_stack, memory, program_counter).pc)

NextRun == Run

SpecRun == InitDecode /\ [][NextRun]_vars

----------------------------------------------------------------------------
(* The input specification: a read of one character at the input boundary  *)
(* while the CPU loop runs.                                                *)

\* reads per behaviour
MaxInputOps == 1

\* the characters the platform reads
InputChars == 0..39

ReadChar ==
  \E char \in InputChars :
    /\ nops < MaxInputOps
    /\ MemCall("read_char", char, 0,
               exit_status(read_char(memory, char).fault),
               read_char(memory, char))

NextInput == ReadChar

SpecInput == InitMem /\ [][NextInput]_vars

----------------------------------------------------------------------------
(* The ZSCII specification: translations by the ZsciiTranslator of a       *)
(* loaded story of every version.                                          *)

\* translations per behaviour
MaxZsciiOps == 1

\* the ZSCII codes and the Unicode characters of the calls
ZsciiCodes == 0..255
UnicodeChars == (0..126) \cup {DEFAULT_UTT[i] : i \in 1..Len(DEFAULT_UTT)}

Ztou ==
  \E index \in ZsciiCodes :
    /\ nops < MaxZsciiOps
    /\ _load_unicode_table(memory).fault = "none"
    /\ MemCall("ztou", index, 0, 0, ztou(memory, index))

\* utoz of a character (kind "u") or of a number (kind "i")
Utoz ==
  \E kind \in {"u", "i"} :
    \E char \in (IF kind = "u" THEN UnicodeChars ELSE ZsciiCodes) :
      /\ nops < MaxZsciiOps
      /\ _load_unicode_table(memory).fault = "none"
      /\ MemCall("utoz", char, kind, 0, utoz(memory, <<kind, char>>))

NextZscii ==
  \/ Ztou
  \/ Utoz

SpecZscii == InitMem /\ [][NextZscii]_vars

----------------------------------------------------------------------------
(* The lexer specification: parse_input on the lexer of a story with a     *)
(* dictionary.                                                             *)

\* calls of parse_input per behaviour
MaxLexerOps == 1
\* the longest input string, and the most separators a dictionary declares
MaxInputLen == 3
MaxSeparators == 3

LexerVersions == {3, 5}

\* the ZSCII codes a dictionary declares as separators, in its order: the
\* comma, the full stop, the semicolon, then ! and ?
SeparatorCodes == <<44, 46, 59, 33, 63>>

\* the characters of the input strings: T, t, the comma, the full stop and
\* the space
LexerChars == {84, 116, 44, 46, 32}
InputStrings == UNION {[1..n -> LexerChars] : n \in 0..MaxInputLen}

\* the abbreviation table after the header (header word 0x18), the one
\* string all its entries give, at an even address, and the dictionary
\* after it (header word 0x08)
AbbrevBase == 64
AbbrevString == AbbrevBase + 192 + (AbbrevBase % 2)
DictAddr == AbbrevString + 2

\* the bytes of the Z-string of the Z-characters zchars, three to a word,
\* bit 15 set in the last word
RECURSIVE ZStringBytes(_)
ZStringBytes(zchars) ==
  LET word == zchars[1] * 1024 + zchars[2] * 32 + zchars[3]
              + (IF Len(zchars) = 3 THEN 32768 ELSE 0)
  IN <<word \div 256, word % 256>>
     \o (IF Len(zchars) = 3 THEN <<>>
         ELSE ZStringBytes(SubSeq(zchars, 4, Len(zchars))))

\* a dictionary entry: the Z-characters of the word padded with 5 to the
\* text length of the version, and one byte of data
DictEntry(ver, zchars) ==
  LET length == IF ver <= 3 THEN 6 ELSE 9
  IN ZStringBytes([i \in 1..length |->
                     IF i <= Len(zchars) THEN zchars[i] ELSE 5])
     \o <<0>>

\* the words of the dictionary: the comma (Z-character 18 or 19 of A2, after
\* the shift 5), t and tt
DictWords(ver) ==
  <<<<5, IF ver = 5 THEN 19 ELSE 18>>, <<25>>, <<25, 25>>>>

\* a story whose dictionary declares the first nsep separators
DictImage(ver, nsep) ==
  LET header == [i \in 1..64 |->
                   CASE i = 1 -> ver
                     [] i = 9 -> DictAddr \div 256
                     [] i = 10 -> DictAddr % 256
                     [] i = 14 -> 64
                     [] i = 16 -> 64
                     [] i = 25 -> AbbrevBase \div 256
                     [] i = 26 -> AbbrevBase % 256
                     [] OTHER -> 0]
      abbrevs == [i \in 1..192 |->
                    IF i % 2 = 1 THEN (AbbrevString \div 2) \div 256
                    ELSE (AbbrevString \div 2) % 256]
      words == DictWords(ver)
      dict == <<nsep>> \o SubSeq(SeparatorCodes, 1, nsep)
              \o <<Len(DictEntry(ver, <<>>)), 0, Len(words)>>
              \o DictEntry(ver, words[1]) \o DictEntry(ver, words[2])
              \o DictEntry(ver, words[3])
      bytes == header \o [i \in 1..(AbbrevBase - 64) |-> 0] \o abbrevs
               \o [i \in 1..(AbbrevBase % 2) |-> 0]
               \o ZStringBytes(<<5, 5, 5>>) \o dict
  IN [a \in 0..(Len(bytes) - 1) |-> bytes[a + 1]]

\* the machine of such a story
InitLexer ==
  \E ver \in LexerVersions :
    \E nsep \in 0..MaxSeparators :
      /\ nsep <= Len(SeparatorCodes)
      /\ MachineInit(DictImage(ver, nsep))

\* parse_input of the lexer constructed on the story, on the dictionary of
\* the story by default or by address
ParseInput ==
  /\ nops < MaxLexerOps
  /\ \E self \in {ZLexer__init__(memory)} :
       \E string \in InputStrings :
         \E dict_addr \in {None, DictAddr} :
           /\ self.fault = "none"
           /\ MemCall("parse_input", string, dict_addr, 0,
                      parse_input(memory, self.ret, string, dict_addr))

NextLexer == ParseInput

SpecLexer == InitLexer /\ [][NextLexer]_vars

----------------------------------------------------------------------------
(* The screen specification: calls on a TrivialScreen.                     *)

\* calls per behaviour, and the longest string written
MaxScreenOps == 2
MaxWriteLen == 2

\* the sizes of the screen: one and two rows and the infinite screen, two
\* and three columns
ScreenRows == {1, 2, INFINITE_ROWS}
ScreenColumns == {2, 3}

\* the characters written: a, the space and the newline
ScreenChars == {97, 32, 10}
ScreenStrings == UNION {[1..n -> ScreenChars] : n \in 0..MaxWriteLen}

\* the keys pressed at the prompts of one write: spaces, but for the
\* interrupt at the prompt that interrupted tells (none when it is 0)
ScreenKeys ==
  {[i \in 1..MaxWriteLen |-> IF i = interrupted THEN INTERRUPT_CHAR ELSE 32] :
     interrupted \in 0..MaxWriteLen}

InitScreen ==
  \E rows \in ScreenRows, columns \in ScreenColumns :
    MachineInitUi(StoryImage(5), TotalSize,
                  TrivialScreenSized(rows, columns))

\* record the outcome r of the call (op, a, b) on the screen; a behaviour
\* ends with the call that raises
ScreenCall(op, a, b, r) ==
  /\ nops < MaxScreenOps
  /\ lastOp.fault = "none"
  /\ screen' = r.screen
  /\ lastOp' = [op |-> op, a |-> a, b |-> b, v |-> 0, fault |-> r.fault,
                ret |-> r.out, before |-> screen]
  /\ nops' = nops + 1
  /\ UNCHANGED <<memory, version, total_size, static_start, static_end,
                 global_variable_start, call_stack, program_counter>>
  /\ UNCHANGED qvars

Write ==
  \E string \in ScreenStrings :
    \E keys \in ScreenKeys :
      ScreenCall("write", string, 0, write(screen, string, keys))

OnInputOccurred ==
  \E newline_occurred \in BOOLEAN :
    ScreenCall("on_input_occurred", newline_occurred, 0,
               on_input_occurred(screen, newline_occurred))

EraseWindow == ScreenCall("erase_window", 0, 0, erase_window(screen))

SetTextStyle ==
  \E style \in {0, STYLE_BOLD} :
    ScreenCall("set_text_style", style, 0, set_text_style(screen, style))

OpBufferMode ==
  \E flag \in {0, 1} :
    ScreenCall("buffer_mode", flag, 0, op_buffer_mode(screen, flag))

NextScreen ==
  \/ Write
  \/ OnInputOccurred
  \/ EraseWindow
  \/ SetTextStyle
  \/ OpBufferMode

SpecScreen == InitScreen /\ [][NextScreen]_vars

----------------------------------------------------------------------------
(* The header-word specification: write_word on every header address.     *)

\* calls per behaviour
MaxHeaderWordOps == 2

\* the words written: both bytes differ from each other and from zero
HeaderWordVals == {4660, 43981}

HeaderWriteWord ==
  \E a \in 0..63, v \in HeaderWordVals :
    /\ nops < MaxHeaderWordOps
    /\ MemCall("write_word", a, 0, v, write_word(memory, a, v))

NextHeaderWord == HeaderWriteWord

SpecHeaderWord == InitMem /\ [][NextHeaderWord]_vars

----------------------------------------------------------------------------
(* The routine specification: start_routine on routines that declare from  *)
(* no local variable to more than fifteen.                                 *)

\* calls per behaviour
MaxRoutineOps == 2

\* the local counts that the first byte of the routine declares
LocalCounts == {0, 1, 2, 15, 16, 255}

\* the argument lists of the calls
RoutineArgs == {<<>>, <<7>>, <<7, 8>>, <<7, 8, 9>>}

\* the address of the routine: the first byte after the header
RoutineBase == 64

\* a story whose routine declares n locals, local i initially 256 * i + 2 * i,
\* followed by four bytes of code
RoutineImage(ver, n) ==
  [a \in 0..(RoutineBase + 34) |->
     CASE a = 0 -> ver
       [] a = 7 -> RoutineBase + 31
       [] a = 13 -> RoutineBase
       [] a = 15 -> RoutineBase
       [] a = RoutineBase -> n
       [] a > RoutineBase /\ a <= RoutineBase + 30 ->
            IF (a - RoutineBase) % 2 = 1 THEN (a - RoutineBase + 1) \div 2
            ELSE a - RoutineBase
       [] OTHER -> 0]

InitRoutine ==
  \E ver \in Versions, n \in LocalCounts : MachineInit(RoutineImage(ver, n))

\* start_routine on the routine of the story
StartRoutineAt ==
  \E args \in RoutineArgs, d \in {None, 0} :
    LET r == start_routine(call_stack, memory, RoutineBase, d,
                           program_counter, args)
    IN Step(MaxRoutineOps, "start_routine", args, RoutineBase, d, r,
            IF r.fault = "none" THEN r.ret ELSE program_counter)

NextRoutine == StartRoutineAt

SpecRoutine == InitRoutine /\ [][NextRoutine]_vars

----------------------------------------------------------------------------
(* The specification of operand fetching: the routine of the story holds   *)
(* one instruction with constant and variable-typed operand slots; the     *)
(* routine is started, values are pushed, and the decoder fetches.         *)

\* calls per behaviour
MaxOperandOps == 4
\* the word held by global variable 16
GlobalWord == 515

OperandVersions == {3, 5}

\* long 2OP with small/small, variable/small, small/variable and
\* variable/variable slots; short 1OP with a small and a variable slot; VAR
\* with types variable, small, small; 2OP in variable form with types
\* variable, large
OperandSamples ==
  {<<20, 3, 4>>, <<84, 16, 4>>, <<52, 7, 1>>, <<116, 0, 0>>,
   <<149, 9>>, <<165, 0>>, <<224, 151, 0, 9, 1>>, <<201, 143, 16, 1, 2>>}

\* the first instruction of the routine of the story in version ver
RoutineCode(ver) ==
  RoutineAddr + 1 + (IF ver < 5 THEN 2 * RoutineLocals ELSE 0)

\* the story image whose routine starts with code, global 16 holding
\* GlobalWord, initial PC at the first byte of the code
OperandImage(ver, code) ==
  [a \in 0..(TotalSize - 1) |->
     IF a >= RoutineCode(ver) /\ a < RoutineCode(ver) + Len(code)
     THEN code[a - RoutineCode(ver) + 1]
     ELSE IF a = 6 THEN RoutineCode(ver) \div 256
     ELSE IF a = 7 THEN RoutineCode(ver) % 256
     ELSE IF a = GlobalsStart THEN GlobalWord \div 256
     ELSE IF a = GlobalsStart + 1 THEN GlobalWord % 256
     ELSE StoryImage(ver)[a]]

InitOperand ==
  \E ver \in OperandVersions, code \in OperandSamples :
    MachineInit(OperandImage(ver, code))

FetchInstruction ==
  \E r \in {get_next_instruction(call_stack, memory, program_counter)} :
    Step(MaxOperandOps, "get_next_instruction", program_counter, 0, 0, r,
         r.pc)

NextOperand ==
  \/ StartRoutine(MaxOperandOps, None, <<>>)
  \/ \E v \in StackVals : PushStack(MaxOperandOps, v)
  \/ FetchInstruction

SpecOperand == InitOperand /\ [][NextOperand]_vars

----------------------------------------------------------------------------
(* The specification of operand-types bytes: the code of the story is one  *)
(* instruction in variable form, with one types byte or, for call_vs2 and  *)
(* call_vn2, two, followed by bytes enough for eight large operands.       *)

\* calls per behaviour
MaxTypesOps == 1

\* types bytes: no operand; 11 before 01; 00 01; 01 10; 11 before three 00;
\* 01 01 10; 00, then 11 11 before 01
TypesBytes == {255, 223, 31, 111, 192, 91, 61}

\* VAR 0, 2OP 1 in variable form, call_vs2 and call_vn2
SingleTypesOpcodes == {224, 193}
DoubleTypesOpcodes == {236, 250}

OperandBytes == <<1, 2, 3, 4, 5, 6, 7, 8, 9, 10, 11, 12, 13, 14, 15, 16>>

TypesSamples ==
  {<<opcode, t>> \o OperandBytes :
     opcode \in SingleTypesOpcodes, t \in TypesBytes}
    \cup {<<opcode, t, u>> \o OperandBytes :
            opcode \in DoubleTypesOpcodes, t \in TypesBytes,
            u \in TypesBytes}

InitTypes ==
  \E ver \in Versions, code \in TypesSamples :
    MachineInit(CodeImage(ver, code))

FetchTyped ==
  \E r \in {get_next_instruction(call_stack, memory, program_counter)} :
    Step(MaxTypesOps, "get_next_instruction", program_counter, 0, 0, r, r.pc)

NextTypes == FetchTyped

SpecTypes == InitTypes /\ [][NextTypes]_vars

----------------------------------------------------------------------------
(* The specification of branching in a routine: the routine of the story   *)
(* starts with a branch descriptor; it is called, from the top level or    *)
(* from itself, and _branch runs with either test result.                  *)

\* calls per behaviour
MaxReturnOps == 3

\* result dispositions of the calls: discard, the stack, global 16
ReturnDispositions == {None, 0, 16}

\* 1-byte and 2-byte descriptors with the sentinel offsets 0 and 1 and
\* others, followed by one byte
ReturnSamples ==
  {Enc1(s, o) \o <<0>> : s \in Senses, o \in {0, 1, 2, 5, 63}}
    \cup {Enc2(s, o) \o <<0>> : s \in Senses, o \in {0, 1, 200}}

InitReturn ==
  \E ver \in OperandVersions, code \in ReturnSamples :
    MachineInit(OperandImage(ver, code))

Branch ==
  \E test_result \in {0, 1} :
    \E r \in {_branch(call_stack, memory, program_counter, test_result)} :
      Step(MaxReturnOps, "_branch", program_counter, 0, test_result, r, r.pc)

NextReturn ==
  \/ \E d \in ReturnDispositions : StartRoutine(MaxReturnOps, d, <<>>)
  \/ Branch

SpecReturn == InitReturn /\ [][NextReturn]_vars

----------------------------------------------------------------------------
(* The specification of Z-character decoding: ZCharTranslator.get on the   *)
(* translator of a loaded story of every version, without abbreviations.   *)

\* calls per behaviour, and the longest Z-character sequence
MaxZcharOps == 1
MaxZcharLen == 4

\* the space, the two shift codes of versions 3 to 5 (shift locks before),
\* code 6 (the escape in A2), and two alphabet codes
Zchars == {0, 4, 5, 6, 7, 13}
ZcharStrings == UNION {[1..n -> Zchars] : n \in 0..MaxZcharLen}

ZCharGet ==
  \E zstr \in ZcharStrings :
    \E alphabet \in {_alphabet(memory)} :
      /\ nops < MaxZcharOps
      /\ alphabet.fault = "none"
      /\ MemCall("ZCharTranslator.get", zstr, 0, 0,
                 ZCharTranslator_get(memory, zstr, TRUE, <<>>, alphabet.ret))

NextZchar == ZCharGet

SpecZchar == InitMem /\ [][NextZchar]_vars

----------------------------------------------------------------------------
(* quetzal.py: the save-file parser.  A save file is the FORM magic, the   *)
(* form type and the chunks the chunk module reads from it, each a name    *)
(* and its data bytes.  The parser's calls map the state of the machine    *)
(* and of the parser to an outcome record.                                 *)

\* the machine and parser state a parser call works on
QState(m, pm, pc, mcs, replaced, seen) ==
  [fault |-> "none", memory |-> m, pristine_mem |-> pm, pc |-> pc,
   machine_call_stack |-> mcs, stack_replaced |-> replaced, seen |-> seen]

\* exception e raised with the state left as q
QRaise(e, q) == [q EXCEPT !.fault = e]

\* Python's ^ on two bytes
RECURSIVE Xor(_, _)
Xor(a, b) ==
  IF a = 0 /\ b = 0 THEN 0
  ELSE (IF a % 2 = b % 2 THEN 0 ELSE 1) + 2 * Xor(a \div 2, b \div 2)

\* int(chunk_serial) succeeds on a string of decimal digits (of the strings
\* used here, which hold digits and letters only)
IsDecimal(bytes) == \A i \in 1..Len(bytes) : bytes[i] \in 48..57

\* QuetzalParser._parse_ifhd
_parse_ifhd(q, data) ==
  IF q.seen THEN QRaise("QuetzalIllegalChunkOrder", q)
  ELSE IF Len(data) # 13 THEN QRaise("QuetzalMalformedChunk", q)
  ELSE
    LET chunk_release == data[1] * 256 + data[2]
        chunk_serial == SubSeq(data, 3, 8)
        chunk_checksum == data[9] * 256 + data[10]
        chunk_pc == data[11] * 65536 + data[12] * 256 + data[13]
        q1 == [q EXCEPT !.pc = chunk_pc]
        mem == q.memory
    IN IF ~IsDecimal(chunk_serial) THEN QRaise("ValueError", q1)
       ELSE IF read_word(mem, 2).fault # "none"
       THEN QRaise(read_word(mem, 2).fault, q1)
       ELSE IF read_word(mem, 2).ret # chunk_release
       THEN QRaise("QuetzalMismatchedFile", q1)
       ELSE IF __getslice__(mem, 18, 24).fault # "none"
       THEN QRaise(__getslice__(mem, 18, 24).fault, q1)
       ELSE IF chunk_serial # __getslice__(mem, 18, 24).ret
       THEN QRaise("QuetzalMismatchedFile", q1)
       ELSE IF read_word(mem, 28).fault # "none"
       THEN QRaise(read_word(mem, 28).fault, q1)
       ELSE IF read_word(mem, 28).ret # 0
               /\ read_word(mem, 28).ret # chunk_checksum
       THEN QRaise("QuetzalMismatchedFile", q1)
       ELSE q1

\* the decoding loop of _parse_cmem: memcounter and bytecounter count from 0;
\* the outcome is an exception or the decoded dynamic memory
RECURSIVE cmem_loop(_, _, _, _, _)
cmem_loop(pmem, runlength_bytes, savegame_mem, memcounter, bytecounter) ==
  LET memlen == Len(savegame_mem)
      bytelen == Len(runlength_bytes)
  IN
  IF ~(bytecounter < bytelen) THEN [fault |-> "none", ret |-> savegame_mem]
  ELSE
    LET byte == runlength_bytes[bytecounter + 1] IN
    IF byte # 0
    THEN \* the log call after the store reads savegame_mem[memcounter + 1]
         IF memcounter + 1 >= memlen
         THEN [fault |-> "IndexError", ret |-> None]
         ELSE cmem_loop(pmem, runlength_bytes,
                        [savegame_mem EXCEPT ![memcounter + 1] =
                           Xor(byte, pmem[memcounter])],
                        memcounter + 1, bytecounter + 1)
    ELSE IF bytecounter + 1 >= bytelen
    THEN [fault |-> "IndexError", ret |-> None]
    ELSE IF memcounter + 1 + runlength_bytes[bytecounter + 2] >= memlen
    THEN [fault |-> "QuetzalMemoryOutOfBounds", ret |-> None]
    ELSE cmem_loop(pmem, runlength_bytes, savegame_mem,
                   memcounter + 1 + runlength_bytes[bytecounter + 2],
                   bytecounter + 2)

\* _parse_cmem that decodes in the pristine image's own bytes instead of a
\* copy of them
parse_cmem_in_place(q, data) ==
  LET q1 == [q EXCEPT !.seen = TRUE]
      slice == __getslice__(q.pristine_mem, 0, static_start)
  IN IF slice.fault # "none" THEN QRaise(slice.fault, q1)
     ELSE LET decoded == cmem_loop(q.pristine_mem, data, slice.ret, 0, 0)
          IN IF decoded.fault # "none" THEN QRaise(decoded.fault, q1)
             ELSE LET w == __setslice__(q.memory, 0, static_start,
                                        decoded.ret)
                      pw == __setslice__(q.pristine_mem, 0, static_start,
                                         decoded.ret)
                  IN IF w.fault # "none" THEN QRaise(w.fault, q1)
                     ELSE [q1 EXCEPT !.memory = w.memory,
                                     !.pristine_mem = pw.memory]

\* QuetzalParser._parse_cmem: the dynamic memory is bytes 0 .. static_start - 1
_parse_cmem(q, data) ==
  LET q1 == [q EXCEPT !.seen = TRUE]
      slice == __getslice__(q.pristine_mem, 0, static_start)
  IN IF slice.fault # "none" THEN QRaise(slice.fault, q1)
     ELSE LET decoded == cmem_loop(q.pristine_mem, data, slice.ret, 0, 0)
          IN IF decoded.fault # "none" THEN QRaise(decoded.fault, q1)
             ELSE LET w == __setslice__(q.memory, 0, static_start,
                                        decoded.ret)
                  IN IF w.fault # "none" THEN QRaise(w.fault, q1)
                     ELSE [q1 EXCEPT !.memory = w.memory]

\* QuetzalParser._parse_umem: ZMemory has no attribute dynamic_start, so the
\* computation of dynamic_len raises before the data is looked at
_parse_umem(q, data) ==
  QRaise("AttributeError", [q EXCEPT !.seen = TRUE])

\* the 16-bit words at bytes[ptr], n of them; ptr counts from 0
stks_words(bytes, ptr, n) ==
  [i \in 1..n |-> bytes[ptr + 2 * i - 1] * 256 + bytes[ptr + 2 * i]]

\* the frame loop of _parse_stks: the outcome is an exception or the call
\* stack of the new ZStackManager
RECURSIVE stks_loop(_, _, _)
stks_loop(bytes, ptr, cs) ==
  LET total_len == Len(bytes) IN
  IF ~(ptr < total_len) THEN [fault |-> "none", ret |-> cs]
  ELSE IF ptr + 7 >= total_len THEN [fault |-> "IndexError", ret |-> None]
  ELSE
    LET return_pc == bytes[ptr + 1] * 65536 + bytes[ptr + 2] * 256
                       + bytes[ptr + 4]
        nlocals == BitField__getslice__(bytes[ptr + 4], 0, 3)
        evalstack_size == bytes[ptr + 7] * 256 + bytes[ptr + 8]
        after_locals == ptr + 8 + 2 * nlocals
        after_stack == after_locals + 2 * evalstack_size
    IN IF after_stack > total_len THEN [fault |-> "IndexError", ret |-> None]
       ELSE stks_loop(bytes, after_stack,
              Append(cs,
                [kind |-> "routine", start_addr |-> 0,
                 return_addr |-> return_pc, program_counter |-> 0,
                 stack |-> stks_words(bytes, after_locals, evalstack_size),
                 local_vars |-> stks_words(bytes, ptr + 8, nlocals),
                 num_local_vars |-> nlocals,
                 caller_stack |-> Top(cs).stack, call_pc |-> 0]))

\* QuetzalParser._parse_stks: the new stack manager is attached to the
\* ZMachine
_parse_stks(q, data) ==
  LET q1 == [q EXCEPT !.seen = TRUE]
      frames == stks_loop(data, 0, <<ZStackBottom>>)
  IN IF frames.fault # "none" THEN QRaise(frames.fault, q1)
     ELSE [q1 EXCEPT !.machine_call_stack = frames.ret,
                     !.stack_replaced = TRUE]

\* QuetzalParser._parse_intd
_parse_intd(q, data) ==
  IF Len(data) < 6 THEN QRaise("IndexError", q) ELSE q

\* the chunk loop of load, from chunk i on
RECURSIVE load_chunks(_, _, _)
load_chunks(q, chunks, i) ==
  IF i > Len(chunks) THEN q
  ELSE
    LET chunkname == chunks[i].name
        data == chunks[i].data
        r == CASE chunkname = "IFhd" -> _parse_ifhd(q, data)
               [] chunkname = "CMem" -> _parse_cmem(q, data)
               [] chunkname = "UMem" -> _parse_umem(q, data)
               [] chunkname = "Stks" -> _parse_stks(q, data)
               [] chunkname = "IntD" -> _parse_intd(q, data)
               [] OTHER -> q
    IN IF r.fault # "none" THEN r ELSE load_chunks(r, chunks, i + 1)

\* QuetzalParser.load on an existing file
load(q, file) ==
  IF file.header # "FORM" THEN QRaise("QuetzalUnrecognizedFileFormat", q)
  ELSE IF file.type # "IFZS" THEN QRaise("QuetzalUnrecognizedFileFormat", q)
  ELSE load_chunks(q, file.chunks, 1)

----------------------------------------------------------------------------
(* The save-file specification: loads of save files into a machine, mixed  *)
(* with writes to its memory and calls on its stack.                       *)

\* calls per behaviour
MaxLoadOps == 2

\* the release number, the serial numbers and the checksums of the stories:
\* a serial of digits and one with a letter, no checksum and a checksum
StoryRelease == 513
SerialDigits == <<49, 49, 49, 49, 49, 49>>
SerialLetter == <<49, 49, 49, 49, 49, 65>>
OtherSerial == <<50, 50, 50, 50, 50, 50>>
StoryChecksums == {0, 4660}
QuetzalVersion == 3

\* a story with the header fields _parse_ifhd compares
QuetzalStory(serial, checksum) ==
  [a \in 0..(TotalSize - 1) |->
     IF a = 2 THEN StoryRelease \div 256
     ELSE IF a = 3 THEN StoryRelease % 256
     ELSE IF 18 <= a /\ a <= 23 THEN serial[a - 17]
     ELSE IF a = 28 THEN checksum \div 256
     ELSE IF a = 29 THEN checksum % 256
     ELSE StoryImage(QuetzalVersion)[a]]

QuetzalStories ==
  { QuetzalStory(serial, checksum) :
      serial \in {SerialDigits, SerialLetter}, checksum \in StoryChecksums }

InitQuetzal == \E story \in QuetzalStories : MachineInit(story)

\* a chunk and a save file
Chunk(name, data) == [name |-> name, data |-> data]
SaveFile(header, type, chunks) ==
  [header |-> header, type |-> type, chunks |-> chunks]

\* the program counter the IFhd chunks carry
SavedPc == StaticStart + 2

\* the data of an IFhd chunk
IfhdData(release, serial, checksum, pc) ==
  <<release \div 256, release % 256>> \o serial
    \o <<checksum \div 256, checksum % 256,
         pc \div 65536, (pc \div 256) % 256, pc % 256>>

\* the IFhd chunk that belongs to a story
IfhdOf(story) ==
  Chunk("IFhd", IfhdData(story[2] * 256 + story[3],
                         [i \in 1..6 |-> story[17 + i]],
                         story[28] * 256 + story[29], SavedPc))

\* IFhd chunks: that of the story, and ones with another release, another
\* serial (of digits, with a letter), another checksum, a byte less and a
\* byte more
IfhdSamples(story) ==
  LET release == story[2] * 256 + story[3]
      serial == [i \in 1..6 |-> story[17 + i]]
      checksum == story[28] * 256 + story[29]
      good == IfhdData(release, serial, checksum, SavedPc)
  IN { IfhdOf(story),
       Chunk("IFhd", IfhdData(release + 1, serial, checksum, SavedPc)),
       Chunk("IFhd", IfhdData(release, OtherSerial, checksum, SavedPc)),
       Chunk("IFhd", IfhdData(release, SerialLetter, checksum, SavedPc)),
       Chunk("IFhd", IfhdData(release, serial, checksum + 1, SavedPc)),
       Chunk("IFhd", SubSeq(good, 1, 12)),
       Chunk("IFhd", good \o <<0>>) }

\* the CMem encoding of a sequence of XOR differences, from position i on,
\* after run zero bytes: non-zero bytes verbatim, a run of k + 1 zero bytes
\* as the pair 0, k, the trailing run left out when omit is set
RECURSIVE cmem_encode(_, _, _, _)
cmem_encode(diff, i, run, omit) ==
  IF i > Len(diff)
  THEN (IF run = 0 \/ omit THEN <<>> ELSE <<0, run - 1>>)
  ELSE IF diff[i] = 0
  THEN (IF run = 256 THEN <<0, 255>> \o cmem_encode(diff, i + 1, 1, omit)
        ELSE cmem_encode(diff, i + 1, run + 1, omit))
  ELSE (IF run > 0 THEN <<0, run - 1>> ELSE <<>>)
         \o <<diff[i]>> \o cmem_encode(diff, i + 1, 0, omit)

\* the dynamic memory of an image, as a sequence
DynamicMemory(m) == [i \in 1..StaticStart |-> m[i - 1]]

\* the CMem chunk of the dynamic memory snapshot M against the pristine
\* image
CMemOf(M, pristine, omit) ==
  Chunk("CMem",
        cmem_encode([i \in 1..Len(M) |-> Xor(M[i], pristine[i - 1])],
                    1, 0, omit))

\* snapshots of the dynamic memory: the pristine one, and ones that differ
\* from it in the middle, in the last byte, and in both
Snapshots(pristine) ==
  { [i \in 1..StaticStart |->
       IF (i - 1) \in changed THEN Xor(pristine[i - 1], 255)
       ELSE pristine[i - 1]] :
    changed \in SUBSET {40, StaticStart - 1} }

\* the data of one Stks frame
StksFrame(return_pc, flags, varnum, argflag, locals, stack) ==
  LET words(ws) ==
        [i \in 1..(2 * Len(ws)) |->
           IF i % 2 = 1 THEN ws[(i + 1) \div 2] \div 256
           ELSE ws[i \div 2] % 256]
  IN <<return_pc \div 65536, (return_pc \div 256) % 256, return_pc % 256,
       flags, varnum, argflag, Len(stack) \div 256, Len(stack) % 256>>
       \o words(locals) \o words(stack)

\* a Stks chunk of two frames, and one cut short
StksSample ==
  Chunk("Stks", StksFrame(0, 0, 0, 0, <<>>, <<9>>)
                  \o StksFrame(StaticStart + 4, 1, 0, 1, <<7>>, <<8>>))
StksCut == Chunk("Stks", SubSeq(StksFrame(0, 1, 0, 0, <<7>>, <<8>>), 1, 9))

\* memory and stack chunks
BodySamples(story) ==
  { CMemOf(M, story, omit) : M \in Snapshots(story), omit \in BOOLEAN }
    \cup { Chunk("CMem", <<0>>),
           Chunk("UMem", DynamicMemory(story)),
           StksSample, StksCut,
           Chunk("IntD", <<0, 0, 0, 0, 0, 0, 0, 0>>),
           Chunk("ANNO", <<65>>) }

\* save files: one chunk; the story's IFhd and a memory or stack chunk, in
\* both orders; another IFhd and a memory chunk; IFhd, CMem and Stks; and
\* files with a wrong magic
FileSamples(story) ==
  { SaveFile("FORM", "IFZS", <<c>>) :
      c \in IfhdSamples(story) \cup BodySamples(story) }
    \cup { SaveFile("FORM", "IFZS", <<IfhdOf(story), c>>) :
             c \in BodySamples(story) }
    \cup { SaveFile("FORM", "IFZS", <<c, IfhdOf(story)>>) :
             c \in BodySamples(story) }
    \cup { SaveFile("FORM", "IFZS", <<h, CMemOf(M, story, TRUE)>>) :
             h \in IfhdSamples(story), M \in Snapshots(story) }
    \cup { SaveFile("FORM", "IFZS",
                    <<IfhdOf(story), CMemOf(M, story, TRUE), StksSample>>) :
             M \in Snapshots(story) }
    \cup { SaveFile("FORM", "IFZS", <<>>),
           SaveFile("RIFF", "IFZS", <<IfhdOf(story)>>),
           SaveFile("FORM", "AIFF", <<IfhdOf(story)>>) }

\* the save files of every story
FilesOf == [story \in QuetzalStories |-> FileSamples(story)]

\* the save files offered to a machine: those of its story
Files ==
  IF pristine_mem \in QuetzalStories THEN FilesOf[pristine_mem]
  ELSE FileSamples(pristine_mem)

\* QuetzalParser(machine).load(file) when fresh, load(file) on the parser of
\* an earlier load otherwise
Load ==
  \E fresh \in BOOLEAN, file \in Files :
    LET q == QState(memory, pristine_mem, program_counter,
                    machine_call_stack, stack_replaced,
                    IF fresh THEN FALSE ELSE seen_mem_or_stks)
        r == load(q, file)
    IN /\ nops < MaxLoadOps
       /\ memory' = r.memory
       /\ pristine_mem' = r.pristine_mem
       /\ program_counter' = r.pc
       /\ machine_call_stack' = r.machine_call_stack
       /\ stack_replaced' = r.stack_replaced
       /\ seen_mem_or_stks' = r.seen
       /\ lastOp' = [op |-> "load", a |-> file, b |-> q.seen, v |-> 0,
                     fault |-> r.fault, ret |-> None, before |-> call_stack]
       /\ nops' = nops + 1
       /\ UNCHANGED <<version, total_size, static_start, static_end,
                      global_variable_start, call_stack, screen>>

\* the addresses and the variable the machine writes between loads
WriteAddrs == {16, 40, StaticStart - 1}

QSetItem ==
  \E a \in WriteAddrs, v \in ByteVals :
    Step(MaxLoadOps, "setitem", a, 0, v,
         SFromMem(call_stack, __setitem__(memory, a, v)), program_counter)

QSetSlice ==
  \E a \in WriteAddrs, v \in ByteVals :
    Step(MaxLoadOps, "setslice", a, a + 2, v,
         SFromMem(call_stack, __setslice__(memory, a, a + 2, <<v, v>>)),
         program_counter)

QWriteWord ==
  \E a \in WriteAddrs, v \in WordVals :
    Step(MaxLoadOps, "write_word", a, 0, v,
         SFromMem(call_stack, write_word(memory, a, v)), program_counter)

QSetHeader ==
  \E v \in ByteVals :
    Step(MaxLoadOps, "interpreter_set_header", 16, 0, v,
         SFromMem(call_stack, interpreter_set_header(memory, 16, v)),
         program_counter)

QWriteGlobal ==
  \E v \in WordVals :
    Step(MaxLoadOps, "write_global", 16, 0, v,
         SFromMem(call_stack, write_global(memory, 16, v)), program_counter)

NextQuetzal ==
  \/ Load
  \/ QSetItem
  \/ QSetSlice
  \/ QWriteWord
  \/ QSetHeader
  \/ QWriteGlobal
  \/ StartRoutine(MaxLoadOps, None, <<>>)
  \/ PushStack(MaxLoadOps, 5)

SpecQuetzal == InitQuetzal /\ [][NextQuetzal]_vars

----------------------------------------------------------------------------
(* Claims about the memory bank.                                           *)

\* static memory as the specification defines it
InStatic(a) == static_start <= a /\ a < Min(65536, total_size)

\* C1: for every address a of static memory, a byte write at a and a word
\* write at a or at a-1 raise ZMemoryIllegalWrite and leave memory as it was,
\* and a byte read at a and a word read at a (whose two bytes are in the
\* image) succeed.
C1_StaticIsReadOnly ==
  [][LET op == lastOp' IN
     /\ (op.op = "setitem" /\ InStatic(op.a))
          => (op.fault = "ZMemoryIllegalWrite" /\ memory' = memory)
     /\ (op.op = "write_word" /\ (InStatic(op.a) \/ InStatic(op.a + 1))
           /\ op.a + 1 < total_size)
          => (op.fault = "ZMemoryIllegalWrite" /\ memory' = memory)
     /\ (op.op = "getitem" /\ InStatic(op.a))
          => (op.fault = "none" /\ op.ret = memory[op.a])
     /\ (op.op = "read_word" /\ InStatic(op.a) /\ op.a + 1 < total_size)
          => (op.fault = "none"
              /\ op.ret = memory[op.a] * 256 + memory[op.a + 1])
    ]_vars

\* the authorization table permits the write of header byte h by the party
\* whose flag is at position flag of the tuple (2: game, 3: interpreter)
Permitted(h, flag) ==
  /\ h \in 0..63
  /\ HEADER_PERMS[h + 1] # <<>>
  /\ version >= HEADER_PERMS[h + 1][1]
  /\ HEADER_PERMS[h + 1][flag] = 1

\* C2: game_set_header(h, v) stores v at byte h iff the table permits it
\* for the loaded version, and otherwise raises ZMemoryIllegalWrite and
\* leaves memory unchanged; interpreter_set_header likewise with the
\* interpreter's flag; h outside 0..63 raises ZMemoryOutOfBounds.
C2_HeaderAuthorization ==
  [][LET op == lastOp'
         flag == IF op.op = "game_set_header" THEN 2 ELSE 3
     IN op.op \in {"game_set_header", "interpreter_set_header"} =>
          IF op.a \notin 0..63
          THEN op.fault = "ZMemoryOutOfBounds" /\ memory' = memory
          ELSE IF Permitted(op.a, flag)
          THEN op.fault = "none" /\ memory' = [memory EXCEPT ![op.a] = op.v]
          ELSE op.fault = "ZMemoryIllegalWrite" /\ memory' = memory
    ]_vars

\* C2 witness: the game wrote header byte 30, which only versions 4 and 5
\* let it write, and the interpreter was refused a byte
C2_Witness ==
  /\ lastOp.op = "interpreter_set_header"
  /\ lastOp.fault = "ZMemoryIllegalWrite"
  /\ memory[30] \in ByteVals
  /\ memory[30] # StoryImage(version)[30]

\* C3: a direct byte write, or a slice write over a range that contains a
\* header address 0..63, raises and leaves the header unchanged, so that a
\* header byte changes only through a header call the table permits.
C3_HeaderOnlyThroughTable ==
  [][LET op == lastOp' IN
     /\ (op.op = "setitem" /\ op.a \in 0..63)
          => (op.fault # "none" /\ memory' = memory)
     /\ (op.op = "setslice" /\ (\E h \in 0..63 : op.a <= h /\ h < op.b))
          => (op.fault # "none" /\ memory' = memory)
     /\ \A h \in 0..63 :
          memory'[h] # memory[h] =>
            \/ op.op \in {"game_set_header", "write_word"} /\ Permitted(h, 2)
            \/ op.op = "interpreter_set_header" /\ Permitted(h, 3)
    ]_vars

----------------------------------------------------------------------------
(* Claims about the call stack and the variables.                          *)

\* the address of global variable d in memory
GlobalAddr(d) == global_variable_start + (d - 16) * 2

\* the evaluation stacks and locals of the frames of a call stack
FrameData(cs) ==
  [i \in 1..Len(cs) |-> <<cs[i].stack, cs[i].local_vars>>]

\* C4: start_routine(R, d, pc, args) from a running routine followed by
\* finish_routine(v) hands back the pc saved at the call, leaves the call
\* stack as deep as before the call and disposes v as d says: nothing is
\* written for discard, v is pushed on the caller's stack for d = 0, stored
\* in the caller's local d for 1 <= d <= 15, in global d for 16 <= d <= 255.
C4_CallReturnDisposes ==
  [][(/\ lastOp.op = "start_routine" /\ lastOp.fault = "none"
      /\ Len(lastOp.before) >= 2
      /\ lastOp'.op = "finish_routine")
     => LET d == lastOp.a
            v == lastOp'.v
            depth == Len(lastOp.before)
            caller == Top(lastOp.before)
            after == Top(call_stack')
        IN /\ lastOp'.fault = "none"
           /\ lastOp'.ret = lastOp.b
           /\ program_counter' = lastOp.b
           /\ Len(call_stack') = depth
           /\ \A i \in 1..(depth - 1) :
                FrameData(call_stack')[i] = FrameData(lastOp.before)[i]
           /\ after.stack = IF d = 0 THEN Append(caller.stack, v)
                            ELSE caller.stack
           /\ after.local_vars = IF 1 <= d /\ d <= 15
                                 THEN [caller.local_vars EXCEPT ![d] = v]
                                 ELSE caller.local_vars
           /\ memory' = IF 16 <= d /\ d <= 255
                        THEN [memory EXCEPT ![GlobalAddr(d)] = v \div 256,
                                            ![GlobalAddr(d) + 1] = v % 256]
                        ELSE memory
    ]_vars

C7_StackMisuseIsStackFault ==
  LET before == lastOp.before
      no_routine == Len(before) = 1
      misuse ==
        \/ /\ lastOp.op = "pop_stack"
           /\ (no_routine \/ Len(Top(before).stack) = 0)
        \/ /\ lastOp.op \in {"get_local_variable", "set_local_variable"}
           /\ \/ no_routine
              \/ lastOp.a > 14
              \/ lastOp.a >= Top(before).num_local_vars
  IN misuse => (lastOp.fault # "none" /\ call_stack = before)

----------------------------------------------------------------------------
(* Claims about the decoder and the arithmetic.                            *)

\* C8: a 1-byte branch descriptor carrying (sense, o), o in 0..63, decodes
\* to (sense, o) and advances the PC by 1, also as the last byte of memory;
\* a 2-byte descriptor carrying a signed 14-bit o decodes to (sense, o) and
\* advances the PC by 2.
C8_BranchRoundTrip ==
  LET at == lastOp.a IN
  lastOp.op = "get_branch_offset" =>
    /\ \A s \in Senses, o \in Offsets1 :
         (at < total_size /\ <<memory[at]>> = Enc1(s, o))
           => (/\ lastOp.fault = "none"
               /\ lastOp.ret = <<s, o>>
               /\ program_counter = at + 1)
    /\ \A s \in Senses, o \in Offsets2 :
         (at + 1 < total_size /\ <<memory[at], memory[at + 1]>> = Enc2(s, o))
           => (/\ lastOp.fault = "none"
               /\ lastOp.ret = <<s, o>>
               /\ program_counter = at + 2)

\* the form and the opcode number of a first opcode byte b
FormOf(b) ==
  IF version = 5 /\ b = 190 THEN "EXT"
  ELSE IF b < 128 THEN "2OP"
  ELSE IF b < 192 THEN (IF (b \div 16) % 4 = 3 THEN "0OP" ELSE "1OP")
  ELSE IF b < 224 THEN "2OP"
  ELSE "VAR"

NumberOf(m, at) ==
  LET b == m[at] IN
  IF version = 5 /\ b = 190 THEN m[at + 1]
  ELSE IF b < 128 THEN b % 32
  ELSE IF b < 192 THEN b % 16
  ELSE b % 32

\* the bytes the operands of a types byte take: 2 for code 00, 1 for 01 and
\* 10, and nothing from the first 11 on
RECURSIVE TypesLength(_, _)
TypesLength(byte, field) ==
  IF field = 0 THEN 0
  ELSE LET code == (byte \div Pow2(2 * (field - 1))) % 4
       IN IF code = 3 THEN 0
          ELSE (IF code = 0 THEN 2 ELSE 1) + TypesLength(byte, field - 1)

\* the length of the instruction at address at, opcode and operands
InstructionLength(m, at) ==
  LET b == m[at] IN
  IF version = 5 /\ b = 190 THEN 3 + TypesLength(m[at + 2], 4)
  ELSE IF b < 128 THEN 3
  ELSE IF b < 192
  THEN (CASE (b \div 16) % 4 = 0 -> 3
          [] (b \div 16) % 4 = 3 -> 1
          [] OTHER -> 2)
  ELSE IF b = 236 \/ b = 250
  THEN 3 + TypesLength(m[at + 1], 4) + TypesLength(m[at + 2], 4)
  ELSE 2 + TypesLength(m[at + 1], 4)

\* C9: get_next_instruction returns the triple (form, opcode number,
\* operands) that ZCpu.run unpacks, form and number as the first opcode byte
\* gives them, and leaves the PC after the instruction's operands.
C9_FetchReturnsFormNumberOperands ==
  (lastOp.op = "get_next_instruction" /\ lastOp.fault = "none") =>
    /\ Len(lastOp.ret) = 3
    /\ lastOp.ret[1] = FormOf(memory[lastOp.a])
    /\ lastOp.ret[2] = NumberOf(memory, lastOp.a)
    /\ program_counter = lastOp.a + InstructionLength(memory, lastOp.a)

\* the signed reading of a 16-bit value
Signed(x) == IF x >= 32768 THEN x - 65536 ELSE x

\* the arithmetic the three opcodes name
Arith(op, a, b) ==
  CASE op = "op_add" -> Signed(a) + Signed(b)
    [] op = "op_sub" -> Signed(a) - Signed(b)
    [] op = "op_mul" -> Signed(a) * Signed(b)

\* C10: op_add, op_sub and op_mul executed in a routine whose store byte
\* names the stack push (signed(a) op signed(b)) mod 2^16, a value in
\* 0..0xFFFF, on the routine's stack; op_add(0xFFFF, 2) stores 1 and
\* op_sub(0, 1) stores 0xFFFF.
C10_ArithmeticWrapsTo16Bits ==
  (/\ lastOp.op \in {"op_add", "op_sub", "op_mul"}
   /\ Len(lastOp.before) >= 2
   /\ lastOp.fault = "none"
   /\ memory[program_counter - 1] = 0) =>
    /\ Top(call_stack).stack =
         Append(Top(lastOp.before).stack,
                Arith(lastOp.op, lastOp.a, lastOp.b) % 65536)
    /\ Top(call_stack).stack[Len(Top(call_stack).stack)] \in 0..65535

\* the quotient of the Z-machine, rounded towards zero
Quotient(a, b) ==
  LET abs(x) == IF x < 0 THEN 0 - x ELSE x
      q == abs(a) \div abs(b)
  IN IF (a < 0) = (b < 0) THEN q ELSE 0 - q

\* C11: op_div with b = 0 raises ZCpuDivideByZero and writes no variable;
\* with b # 0, in a routine whose store byte names the stack, it pushes the
\* signed quotient as a 16-bit two's-complement value, without a fault:
\* op_div(0x8000, 0xFFFF) pushes 0x8000.
C11_DivisionIsSigned16Bit ==
  [][(lastOp'.op = "op_div" /\ Len(call_stack) >= 2) =>
       IF lastOp'.b = 0
       THEN /\ lastOp'.fault = "ZCpuDivideByZero"
            /\ call_stack' = call_stack
            /\ memory' = memory
       ELSE memory[program_counter] = 0 =>
              /\ lastOp'.fault = "none"
              /\ Top(call_stack').stack =
                   Append(Top(call_stack).stack,
                          Quotient(Signed(lastOp'.a), Signed(lastOp'.b))
                            % 65536)
    ]_vars

----------------------------------------------------------------------------
(* Claims about the save-file parser.                                      *)

\* the serial number in the header of an image
SerialOf(m) == [i \in 1..6 |-> m[17 + i]]

\* per story, the save files that carry the story's IFhd and the CMem
\* encoding of a snapshot M, with and without the trailing unchanged run
CMemCases ==
  [story \in QuetzalStories |->
     { [M |-> M,
        file |-> SaveFile("FORM", "IFZS",
                          <<IfhdOf(story), CMemOf(M, story, omit)>>)] :
       M \in Snapshots(story), omit \in BOOLEAN }]

\* C12: loading, with a new parser, the CMem encoding of a snapshot M of
\* the dynamic memory against the pristine image installs exactly M as the
\* dynamic memory: for M equal to the pristine memory, for M different in
\* its last byte, with the trailing unchanged run left out and with the
\* encoding covering the whole dynamic memory.
C12_CMemRoundTrip ==
  [][(/\ lastOp'.op = "load" /\ lastOp'.b = FALSE
      /\ pristine_mem \in QuetzalStories
      /\ IsDecimal(SerialOf(pristine_mem)))
     => \A c \in CMemCases[pristine_mem] :
          lastOp'.a = c.file =>
            /\ lastOp'.fault = "none"
            /\ DynamicMemory(memory') = c.M
    ]_vars

\* a memory or stack chunk of the chunks comes before any IFhd chunk
BodyBeforeIfhd(chunks) ==
  \E i \in 1..Len(chunks) :
    /\ chunks[i].name \in {"CMem", "UMem", "Stks"}
    /\ \A j \in 1..(i - 1) : chunks[j].name # "IFhd"

\* C13: a save file in which a CMem, UMem or Stks chunk comes before the
\* IFhd chunk, or that has such a chunk and no IFhd, is rejected with
\* QuetzalIllegalChunkOrder, and none of its chunks is applied to the memory
\* or to the stack.
C13_IfhdPrecedesMemoryAndStack ==
  [][(/\ lastOp'.op = "load"
      /\ lastOp'.a.header = "FORM" /\ lastOp'.a.type = "IFZS"
      /\ BodyBeforeIfhd(lastOp'.a.chunks))
     => /\ lastOp'.fault = "QuetzalIllegalChunkOrder"
        /\ memory' = memory
        /\ machine_call_stack' = machine_call_stack
        /\ call_stack' = call_stack
    ]_vars

\* C14: a new parser given a file of one IFhd chunk accepts it exactly when
\* the chunk has 13 bytes, its release is header word 0x02, its serial is
\* header bytes 0x12..0x17 and header word 0x1C is 0 or the chunk's
\* checksum; a wrong length raises QuetzalMalformedChunk and a mismatch
\* QuetzalMismatchedFile.
C14_IfhdVerification ==
  [][(/\ lastOp'.op = "load" /\ lastOp'.b = FALSE
      /\ lastOp'.a.header = "FORM" /\ lastOp'.a.type = "IFZS"
      /\ Len(lastOp'.a.chunks) = 1
      /\ lastOp'.a.chunks[1].name = "IFhd")
     => LET data == lastOp'.a.chunks[1].data
            matches ==
              /\ data[1] * 256 + data[2] = memory[2] * 256 + memory[3]
              /\ SubSeq(data, 3, 8) = SerialOf(memory)
              /\ \/ memory[28] * 256 + memory[29] = 0
                 \/ memory[28] * 256 + memory[29] = data[9] * 256 + data[10]
        IN /\ Len(data) # 13 => lastOp'.fault = "QuetzalMalformedChunk"
           /\ (Len(data) = 13 /\ ~matches)
                => lastOp'.fault = "QuetzalMismatchedFile"
           /\ (Len(data) = 13 /\ matches) => lastOp'.fault = "none"
    ]_vars

\* the exceptions of quetzal.py
QuetzalErrors ==
  {"QuetzalError", "QuetzalMalformedChunk", "QuetzalNoSuchSavefile",
   "QuetzalUnrecognizedFileFormat", "QuetzalIllegalChunkOrder",
   "QuetzalMismatchedFile", "QuetzalMemoryOutOfBounds",
   "QuetzalMemoryMismatch", "QuetzalStackFrameOverflow"}

\* C15: when load fails with a save-file fault, the program counter, the
\* dynamic memory and the call stack are what they were before the load.
C15_FailedRestoreChangesNothing ==
  [][(lastOp'.op = "load" /\ lastOp'.fault \in QuetzalErrors)
     => /\ program_counter' = program_counter
        /\ DynamicMemory(memory') = DynamicMemory(memory)
        /\ call_stack' = call_stack
        /\ machine_call_stack' = machine_call_stack
    ]_vars

\* C16: after a successful load of a save file with the story's IFhd chunk
\* and then a Stks chunk, the call stack the CPU works on is the one decoded
\* from the chunk, the one the machine now holds, and no longer the one from
\* before the load.
C16_RestoreReplacesCpuStack ==
  (/\ lastOp.op = "load" /\ lastOp.fault = "none"
   /\ Len(lastOp.a.chunks) >= 2
   /\ lastOp.a.chunks[1].name = "IFhd"
   /\ \E i \in 2..Len(lastOp.a.chunks) : lastOp.a.chunks[i].name = "Stks")
  => /\ call_stack = machine_call_stack
     /\ call_stack # lastOp.before

\* C17: no call changes the pristine image: it stays the story file the
\* machine was constructed from.
C17_PristineNeverMutated ==
  [][pristine_mem' = pristine_mem /\ pristine_mem \in QuetzalStories]_vars

\* C17 witness: a load decoded a CMem chunk against the pristine image and
\* installed a dynamic memory that differs from it
C17_Witness ==
  /\ lastOp.op = "load" /\ lastOp.fault = "none"
  /\ \E i \in 1..Len(lastOp.a.chunks) : lastOp.a.chunks[i].name = "CMem"
  /\ DynamicMemory(memory) # DynamicMemory(pristine_mem)
  /\ pristine_mem \in QuetzalStories

----------------------------------------------------------------------------
(* Claims about the call opcodes, op_store and op_je.                      *)

\* C18: a call opcode whose routine operand is 0 builds no frame: the call
\* stack keeps its depth, execution continues after the call (after the
\* store byte of a storing variant), a variant that does not store changes
\* nothing, and a storing variant in a routine whose store byte names the
\* stack pushes 0.
C18_CallOfZeroReturnsFalse ==
  [][(lastOp'.op \in {"op_call", "op_call_1s", "op_call_1n"}
        /\ lastOp'.a = 0)
     => LET storing == lastOp'.v IN
        /\ lastOp'.fault = "none"
        /\ Len(call_stack') = Len(call_stack)
        /\ program_counter' = program_counter + (IF storing THEN 1 ELSE 0)
        /\ ~storing => (call_stack' = call_stack /\ memory' = memory)
        /\ (storing /\ Len(call_stack) >= 2 /\ memory[program_counter] = 0)
             => /\ call_stack' =
                     [call_stack EXCEPT ![Len(call_stack)].stack =
                                          Append(@, 0)]
                /\ memory' = memory
    ]_vars

\* C19: in a routine, op_store(0, val) replaces the value on top of the
\* routine's stack by val without changing the stack's depth; op_store(var,
\* val) sets local var for var in 1..15 and global var for var in 16..255;
\* nothing else changes.
C19_StoreWritesInPlace ==
  [][(lastOp'.op = "op_store" /\ Len(call_stack) >= 2)
     => LET variable == lastOp'.a
            value == lastOp'.v
            top == Len(call_stack)
        IN
        /\ (variable = 0 /\ Len(Top(call_stack).stack) > 0)
             => /\ lastOp'.fault = "none"
                /\ call_stack' =
                     [call_stack EXCEPT ![top].stack =
                        [@ EXCEPT ![Len(@)] = value]]
                /\ memory' = memory
        /\ (1 <= variable /\ variable <= 15)
             => /\ lastOp'.fault = "none"
                /\ call_stack' =
                     [call_stack EXCEPT ![top].local_vars[variable] = value]
                /\ memory' = memory
        /\ (16 <= variable /\ variable <= 255)
             => /\ lastOp'.fault = "none"
                /\ call_stack' = call_stack
                /\ memory' = [memory EXCEPT
                                ![GlobalAddr(variable)] = value \div 256,
                                ![GlobalAddr(variable) + 1] = value % 256]
    ]_vars

\* C20: op_je with operands a, b and optionally c, d, followed by a 1-byte
\* branch descriptor of offset o >= 2, branches (PC after the descriptor
\* plus o - 2) exactly when "a equals one of the others" is what the
\* descriptor's sense asks for, and otherwise continues after the
\* descriptor; with the operand a alone the test is false.
C20_JeComparesWithEveryOperand ==
  [][lastOp'.op = "op_je"
     => \A s \in Senses, o \in 2..63 :
          (/\ program_counter + 1 < total_size
           /\ <<memory[program_counter]>> = Enc1(s, o))
          => LET operands == lastOp'.a
                 equal == \E i \in 2..Len(operands) :
                            operands[1] = operands[i]
             IN /\ lastOp'.fault = "none"
                /\ program_counter' =
                     IF equal <=> (s = 1)
                     THEN program_counter + 1 + (o - 2)
                     ELSE program_counter + 1
    ]_vars

----------------------------------------------------------------------------
(* Claims about the opcode table.                                          *)

\* the entries of a table slot that apply to the loaded version
Applicable(decl) ==
  {i \in 1..Len(decl.entries) : decl.entries[i].version <= version}

\* the applicable entry with the greatest min_version
Greatest(decl) ==
  CHOOSE i \in Applicable(decl) :
    \A j \in Applicable(decl) : decl.entries[j].version <= decl.entries[i].version

\* C21: _get_handler(class, number) returns the handler of the table entry
\* with the greatest min_version <= version, and raises
\* ZCpuIllegalInstruction when the slot is beyond the table or None, when no
\* entry applies to the loaded version, or when the applicable entry's
\* handler is None; it never returns a None handler and never fails with
\* another error.
C21_HandlerOrIllegalInstruction ==
  lastOp.op = "_get_handler" =>
    LET table == opcodes[lastOp.a]
        decl == IF lastOp.b < Len(table) THEN table[lastOp.b + 1] ELSE NoDecl
    IN IF \/ Applicable(decl) = {}
          \/ decl.entries[Greatest(decl)].func = NoHandler
       THEN lastOp.fault = "ZCpuIllegalInstruction"
       ELSE /\ lastOp.fault = "none"
            /\ lastOp.ret[2] = decl.entries[Greatest(decl)].func

----------------------------------------------------------------------------
(* Claims about the object tree.                                           *)

\* the parent, sibling and child fields of object o in the object table of m
Relative(m, o, k) ==
  LET base == PropDefaults + (IF version <= 3 THEN 62 ELSE 126)
  IN IF version <= 3 THEN m[base + 9 * (o - 1) + 3 + k]
     ELSE m[base + 14 * (o - 1) + 4 + 2 * k] * 256
            + m[base + 14 * (o - 1) + 5 + 2 * k]

\* the sibling chain from object o on, as far as fuel objects
RECURSIVE ChainFrom(_, _, _)
ChainFrom(m, o, fuel) ==
  IF o = 0 \/ o \notin Objects \/ fuel = 0 THEN <<>>
  ELSE <<o>> \o ChainFrom(m, Relative(m, o, 2), fuel - 1)

\* the child chain of object p
ChildChain(m, p) == ChainFrom(m, Relative(m, p, 3), NumObjects + 1)

\* every object with a parent occurs exactly once in the parent's child
\* chain, and the chains end
TreeWellFormed(m) ==
  /\ \A p \in Objects : Len(ChildChain(m, p)) <= NumObjects
  /\ \A o \in Objects :
       Relative(m, o, 1) # 0 =>
         /\ Relative(m, o, 1) \in Objects
         /\ Cardinality({i \in 1..Len(ChildChain(m, Relative(m, o, 1))) :
                           ChildChain(m, Relative(m, o, 1))[i] = o}) = 1

\* the sequence seq without its entries equal to o
Without(seq, o) == SelectSeq(seq, LAMBDA x : x # o)

\* C22: from a well-formed tree, insert_object(parent, child) with parent #
\* child returns with child in front of parent's former children, child's
\* parent pointer set to parent, child gone from its old parent's chain,
\* whose other members keep their order, and the tree well-formed again.
C22_InsertKeepsTreeWellFormed ==
  [][(/\ lastOp'.op = "insert_object"
      /\ lastOp'.a # lastOp'.b
      /\ TreeWellFormed(memory))
     => LET parent == lastOp'.a
            child == lastOp'.b
            old == Relative(memory, child, 1)
        IN /\ lastOp'.fault = "none"
           /\ Relative(memory', child, 1) = parent
           /\ ChildChain(memory', parent)
                = <<child>> \o Without(ChildChain(memory, parent), child)
           /\ (old # 0 /\ old # parent)
                => ChildChain(memory', old)
                     = Without(ChildChain(memory, old), child)
           /\ TreeWellFormed(memory')
    ]_vars

\* the attribute numbers valid for the loaded version
ValidAttrs == IF version <= 3 THEN 0..31 ELSE 0..47

\* attribute a of object o in m: bit 7 - (a mod 8) of byte a div 8 of the
\* object's entry
AttrBit(m, o, a) ==
  LET base == PropDefaults + (IF version <= 3 THEN 62 ELSE 126)
      size == IF version <= 3 THEN 9 ELSE 14
  IN (m[base + size * (o - 1) + (a \div 8)] \div Pow2(7 - (a % 8))) % 2

\* C23: for a valid attribute a of object o, after op_set_attr(o, a)
\* get_attribute(o, a) returns 1 and after op_clear_attr(o, a) it returns 0;
\* the write changes no other attribute of any object; get_attribute returns
\* bit 7 - (a mod 8) of byte a div 8 of the object's entry.
C23_AttributeSetClearGet ==
  [][LET op == lastOp' IN
     (op.op \in {"op_set_attr", "op_clear_attr", "get_attribute"}
        /\ op.b \in ValidAttrs)
     => /\ op.fault = "none"
        /\ op.op = "get_attribute"
             => op.ret = AttrBit(memory, op.a, op.b) /\ memory' = memory
        /\ op.op # "get_attribute"
             => /\ get_attribute(memory', op.a, op.b).ret
                     = (IF op.op = "op_set_attr" THEN 1 ELSE 0)
                /\ \A o \in Objects, a \in ValidAttrs :
                     (o # op.a \/ a # op.b)
                       => AttrBit(memory', o, a) = AttrBit(memory, o, a)
    ]_vars

----------------------------------------------------------------------------
(* Claims about the memory map.                                            *)

\* C24: for a global n in 16..255 whose two bytes lie in dynamic memory and
\* a value v in 0..0xFFFF, write_global(n, v) changes only these two bytes,
\* to the high and the low byte of v, and read_global(n) then returns v;
\* read_global(n) returns the word there; with n outside 16..255 both raise
\* ZMemoryOutOfBounds and leave memory unchanged.
C24_GlobalRoundTrip ==
  [][LET op == lastOp' IN
     op.op \in {"read_global", "write_global"}
     => IF op.a \notin 16..255
        THEN op.fault = "ZMemoryOutOfBounds" /\ memory' = memory
        ELSE GlobalAddr(op.a) + 1 < static_start
             => /\ op.fault = "none"
                /\ op.op = "read_global"
                     => /\ memory' = memory
                        /\ op.ret = memory[GlobalAddr(op.a)] * 256
                                      + memory[GlobalAddr(op.a) + 1]
                /\ op.op = "write_global"
                     => /\ memory' =
                             [memory EXCEPT
                                ![GlobalAddr(op.a)] = op.v \div 256,
                                ![GlobalAddr(op.a) + 1] = op.v % 256]
                        /\ read_global(memory', op.a).ret = op.v
    ]_vars

\* C25: in a story longer than 64 KiB, a byte or slice write to addresses
\* of the story at or above 0x10000 raises ZMemoryIllegalWrite, and after
\* any byte, slice and word writes every byte that differs from the
\* pristine image lies in dynamic memory.
C25_HighMemoryNotWritable ==
  /\ (/\ lastOp.op \in {"setitem", "setslice"}
      /\ lastOp.a >= 65536
      /\ lastOp.a < total_size
      /\ lastOp.b <= total_size)
       => lastOp.fault = "ZMemoryIllegalWrite"
  /\ total_size > 65536
       => \A a \in DOMAIN memory :
            memory[a] # pristine_mem[a] => a < static_start

\* C26: the construction of a ZMemory from a story of a supported version
\* raises ZMemoryBadMemoryLayout when |dynamic| + |static| exceeds 65534,
\* dynamic being [0, static_start) and static [static_start, min(0x10000,
\* size)), so that every constructed memory keeps the sum within 65534.
C26_DynamicPlusStaticBounded ==
  (/\ lastOp.op = "ZMemory"
   /\ lastOp.v \in Versions
   /\ lastOp.b <= Min(65536, lastOp.a))
    => LET dynamic == lastOp.b
           static == Min(65536, lastOp.a) - lastOp.b
       IN /\ lastOp.fault = "none" => dynamic + static <= 65534
          /\ dynamic + static > 65534
               => lastOp.fault = "ZMemoryBadMemoryLayout"

----------------------------------------------------------------------------
(* Claims about the CPU loop.                                              *)

\* the memory, decode, stack and execution faults
FatalFaults ==
  {"ZMemoryIllegalWrite", "ZMemoryBadInitialization", "ZMemoryOutOfBounds",
   "ZMemoryBadMemoryLayout", "ZMemoryBadStoryfileSize",
   "ZMemoryUnsupportedVersion", "ZOperationError", "ZStackError",
   "ZStackUnsupportedVersion", "ZStackNoRoutine", "ZStackNoSuchVariable",
   "ZStackPopError", "ZCpuOpcodeOverlap", "ZCpuIllegalInstruction",
   "ZCpuDivideByZero", "ZCpuNotImplemented"}

\* C27: once run has ended no step changes the machine, and when run ends
\* with a memory, decode, stack or execution fault, the fault is reported
\* with the program counter that run read before it fetched the faulting
\* instruction.
C27_FatalFaultHaltsAndReportsPc ==
  [][/\ lastOp.op # "run"
     /\ (lastOp'.op = "run" /\ lastOp'.fault \in FatalFaults)
          => lastOp'.ret = program_counter
    ]_vars

\* C28: when the read of a character at the input boundary is interrupted
\* (Ctrl-C, character 3), no exception leaves ZCpu.run and the program ends
\* with exit status 0.
C28_InterruptExitsCleanly ==
  (lastOp.op = "read_char" /\ lastOp.a = INTERRUPT_CHAR)
    => lastOp.fault = "none" /\ lastOp.v = 0

----------------------------------------------------------------------------
(* Claims about text.                                                      *)

\* the ZSCII codes that only the input produces
InputOnly == (129..154) \cup (IF version = 5 THEN {254} ELSE {})

\* C29: in every version, ztou translates the codes 32..126 and the codes
\* from 155 on that the Unicode translation table covers, and utoz
\* translates the result back to the code; ztou(13) is the newline and
\* utoz of the newline is 13; the input-only codes translate to themselves
\* under utoz and raise IndexError under ztou.
C29_ZsciiRoundTrip ==
  /\ lastOp.op = "ztou" =>
       /\ lastOp.a \in (32..126) \cup (155..(154 + Len(DEFAULT_UTT)))
            => /\ lastOp.fault = "none"
               /\ Len(lastOp.ret) = 1
               /\ utoz(memory, <<"u", lastOp.ret[1]>>).fault = "none"
               /\ utoz(memory, <<"u", lastOp.ret[1]>>).ret = lastOp.a
       /\ lastOp.a = 13 => lastOp.fault = "none" /\ lastOp.ret = <<10>>
       /\ lastOp.a \in InputOnly => lastOp.fault = "IndexError"
  /\ lastOp.op = "utoz" =>
       /\ (lastOp.b = "u" /\ lastOp.a = 10)
            => lastOp.fault = "none" /\ lastOp.ret = 13
       /\ (lastOp.b = "i" /\ lastOp.a \in InputOnly)
            => lastOp.fault = "none" /\ lastOp.ret = lastOp.a

\* the lower-case form of a string
Lower(string) ==
  [i \in DOMAIN string |->
     IF string[i] \in 65..90 THEN string[i] + 32 ELSE string[i]]

\* the separators the dictionary at address declares: the bytes after the
\* count, as many as the count says
DeclaredSeparators(address) ==
  {memory[address + k] : k \in 1..memory[address]}

\* the tokens of a string from position i: one for each maximal run of word
\* characters, one for each separator, none for anything else
RECURSIVE Tokens(_, _, _)
Tokens(separators, string, i) ==
  IF i > Len(string) THEN <<>>
  ELSE IF string[i] \in separators
  THEN <<SubSeq(string, i, i)>> \o Tokens(separators, string, i + 1)
  ELSE IF string[i] \in WordChars
  THEN LET end == CHOOSE e \in i..Len(string) :
                    /\ \A j \in i..e :
                         string[j] \in WordChars \ separators
                    /\ e = Len(string)
                       \/ string[e + 1] \notin WordChars \ separators
       IN <<SubSeq(string, i, end)>> \o Tokens(separators, string, end + 1)
  ELSE Tokens(separators, string, i + 1)

\* the address of the dictionary entry whose text is word, 0 without one
EntryOf(word) ==
  LET self == ZLexer__init__(memory).ret
      entries == {DictAddr + 4 + memory[DictAddr] + k * self._entry_length :
                    k \in 0..(self._num_entries - 1)}
      found == {addr \in entries :
                  ZStringFactory_get(memory, self._stringfactory, addr).ret
                    = word}
  IN IF found = {} THEN 0 ELSE CHOOSE addr \in found : TRUE

\* C30: parse_input(text) returns, in input order, one [token, addr] pair
\* for each maximal run of word characters and one for each occurrence of a
\* separator, for every separator the dictionary header declares; whitespace
\* yields no token; the token is looked up in lower case, and addr is the
\* address of its dictionary entry or 0 when it has none.
C30_ParseInputTokens ==
  lastOp.op = "parse_input" =>
    LET expected == Tokens(DeclaredSeparators(DictAddr), lastOp.a, 1)
    IN /\ lastOp.fault = "none"
       /\ Len(lastOp.ret) = Len(expected)
       /\ \A t \in DOMAIN expected :
            /\ Lower(lastOp.ret[t][1]) = Lower(expected[t])
            /\ lastOp.ret[t][2] = EntryOf(Lower(expected[t]))

----------------------------------------------------------------------------
(* Claims about the screen.                                                *)

\* the row counter after the output out from position i on, count rows
\* having been completed before it; -1 when a prompt is missing where the
\* counter reaches rows, or is shown anywhere else or not at column 0
RECURSIVE PromptWalk(_, _, _, _)
PromptWalk(out, i, count, rows) ==
  IF i > Len(out) THEN count
  ELSE IF out[i] = 10
  THEN (IF count + 1 = rows /\ (i = Len(out) \/ out[i + 1] # MORE_STRING)
        THEN -1
        ELSE PromptWalk(out, i + 1, count + 1, rows))
  ELSE IF out[i] = MORE_STRING
  THEN (IF count # rows \/ i = 1 THEN -1
        ELSE IF out[i - 1] # 10 THEN -1
        ELSE IF i = Len(out) THEN count
        ELSE IF out[i + 1] # ERASE_MORE THEN -1
        ELSE PromptWalk(out, i + 2, 0, rows))
  ELSE PromptWalk(out, i + 1, count, rows)

\* C31: on a screen whose rows are not 255, over write, on_input_occurred
\* and erase_window calls, a [MORE] prompt is shown exactly when the rows
\* completed (by a newline or a column wrap) since the last input, erase or
\* prompt reach the rows of the screen; it is shown at column 0, the
\* assertion of __show_more_prompt never fails, and the counter is reset, so
\* that it is in 0..rows-1 after every call that returns; with 255 rows no
\* prompt is ever shown.
C31_MorePromptEveryRows ==
  /\ lastOp.fault # "AssertionError"
  /\ (lastOp.fault = "none" /\ screen._rows # INFINITE_ROWS)
       => screen.rows_since_last_input \in 0..(screen._rows - 1)
  /\ lastOp.op = "write" =>
       IF screen._rows = INFINITE_ROWS
       THEN \A i \in DOMAIN lastOp.ret : lastOp.ret[i] # MORE_STRING
       ELSE LET count == PromptWalk(lastOp.ret, 1,
                                    lastOp.before.rows_since_last_input,
                                    screen._rows)
            IN /\ count # -1
               /\ lastOp.fault = "none"
                    => count = screen.rows_since_last_input
  /\ lastOp.op \in {"on_input_occurred", "erase_window"} =>
       /\ screen.rows_since_last_input = 0
       /\ \A i \in DOMAIN lastOp.ret : lastOp.ret[i] # MORE_STRING

\* a write that returned after a prompt, on a screen where rows had been
\* completed before the call and where a column wrap completed one more
C31_Witness ==
  /\ lastOp.op = "write"
  /\ lastOp.fault = "none"
  /\ lastOp.before.rows_since_last_input > 0
  /\ \E i \in DOMAIN lastOp.ret : lastOp.ret[i] = MORE_STRING
  /\ \A i \in DOMAIN lastOp.a : lastOp.a[i] # 10

----------------------------------------------------------------------------
(* Claims about word writes to the header.                                 *)

\* the game may write the header byte at address in the loaded version
GameWritable(address) ==
  /\ address \in 0..63
  /\ perm_tuple(address) # <<>>
  /\ version >= perm_tuple(address)[1]
  /\ perm_tuple(address)[2] # 0

\* C32: write_word(a, v) with a in 0..63 is all or nothing: when the game
\* may write both byte a and byte a+1 in the loaded version it succeeds and
\* sets byte a to the high byte and byte a+1 to the low byte of v; otherwise
\* it raises ZMemoryIllegalWrite, also for a = 63, and changes neither byte.
C32_HeaderWordAllOrNothing ==
  [][(lastOp'.op = "write_word" /\ lastOp'.a \in 0..63) =>
       IF GameWritable(lastOp'.a) /\ GameWritable(lastOp'.a + 1)
       THEN /\ lastOp'.fault = "none"
            /\ memory' = [memory EXCEPT
                            ![lastOp'.a] = lastOp'.v \div 256,
                            ![lastOp'.a + 1] = lastOp'.v % 256]
       ELSE /\ lastOp'.fault = "ZMemoryIllegalWrite"
            /\ memory' = memory]_vars

----------------------------------------------------------------------------
(* Claims about routine frames.                                            *)

\* C33: start_routine on a routine whose first byte declares n locals: for
\* n in 0..15 it pushes exactly one frame, whose locals 1..n hold the n
\* words after the first byte (versions 1 to 4) or zero (version 5), the
\* first min(|args|, n) of them overridden by the arguments in order, and
\* whose evaluation stack is empty, and it returns the address of the first
\* instruction (R+1+2n in versions 1 to 4, R+1 in version 5); for n > 15 it
\* raises ZStackError and pushes no frame.
C33_StartRoutineFrame ==
  lastOp.op = "start_routine" =>
    LET R == lastOp.b
        n == memory[R]
        args == lastOp.a
        frame == call_stack[Len(call_stack)]
    IN IF n <= 15
       THEN /\ lastOp.fault = "none"
            /\ Len(call_stack) = Len(lastOp.before) + 1
            /\ \A i \in 1..n :
                 frame.local_vars[i] =
                   IF i <= Len(args) THEN args[i]
                   ELSE IF version <= 4
                   THEN memory[R + 2 * i - 1] * 256 + memory[R + 2 * i]
                   ELSE 0
            /\ frame.stack = <<>>
            /\ lastOp.ret = IF version <= 4 THEN R + 1 + 2 * n ELSE R + 1
       ELSE /\ lastOp.fault = "ZStackError"
            /\ Len(call_stack) = Len(lastOp.before)

----------------------------------------------------------------------------
(* Claims about operand fetching.                                          *)

\* the types of the operand slots of the instruction at address at: long
\* form bits 6 and 5, short form bits 5-4, or the fields of the types byte
\* up to the first 11
RECURSIVE KindsOfTypes(_, _)
KindsOfTypes(byte, field) ==
  IF field = 0 THEN <<>>
  ELSE LET code == (byte \div Pow2(2 * (field - 1))) % 4
       IN IF code = 3 THEN <<>>
          ELSE <<code>> \o KindsOfTypes(byte, field - 1)

OperandKinds(m, at) ==
  LET b == m[at] IN
  IF b < 128
  THEN <<IF (b \div 64) % 2 = 1 THEN 2 ELSE 1,
         IF (b \div 32) % 2 = 1 THEN 2 ELSE 1>>
  ELSE IF b < 192
  THEN (IF (b \div 16) % 4 = 3 THEN <<>> ELSE <<(b \div 16) % 4>>)
  ELSE KindsOfTypes(m[at + 1], 4)

\* the operands resolved in order from address addr on: constants as they
\* stand, a variable slot by reading the variable, variable 0 popping the
\* evaluation stack
RECURSIVE Resolved(_, _, _, _, _)
Resolved(cs, m, kinds, addr, operands) ==
  IF kinds = <<>> THEN [call_stack |-> cs, operands |-> operands]
  ELSE IF Head(kinds) = 0
  THEN Resolved(cs, m, Tail(kinds), addr + 2,
                Append(operands, m[addr] * 256 + m[addr + 1]))
  ELSE IF Head(kinds) = 1
  THEN Resolved(cs, m, Tail(kinds), addr + 1, Append(operands, m[addr]))
  ELSE Resolved(_read_variable(cs, m, m[addr]).call_stack, m, Tail(kinds),
                addr + 1,
                Append(operands, _read_variable(cs, m, m[addr]).ret))

\* the address of the first operand of the instruction at address at
FirstOperand(m, at) == IF m[at] < 192 THEN at + 1 ELSE at + 2

\* C34: every operand that get_next_instruction hands over for a
\* variable-typed slot is the current value of the referenced variable, read
\* in operand order before the handler runs, a reference to variable 0
\* popping the evaluation stack exactly once; constant operands pass through
\* unchanged.  Checked for fetches in a routine whose evaluation stack holds
\* a value for every reference to variable 0.
C34_VariableOperandsResolved ==
  (/\ lastOp.op = "get_next_instruction"
   /\ lastOp.fault = "none"
   /\ Top(lastOp.before).kind # "bottom"
   /\ Len(Top(lastOp.before).stack) >= 2) =>
    LET want == Resolved(lastOp.before, memory,
                         OperandKinds(memory, lastOp.a),
                         FirstOperand(memory, lastOp.a), <<>>)
    IN /\ lastOp.ret[2] = want.operands
       /\ call_stack = want.call_stack

\* the operand sizes a types byte gives: 2 for code 00, 1 for 01 and 10, up
\* to the first 11
TypeSizes(byte) ==
  [i \in DOMAIN KindsOfTypes(byte, 4) |->
     IF KindsOfTypes(byte, 4)[i] = 0 THEN 2 ELSE 1]

RECURSIVE SumSizes(_)
SumSizes(sizes) ==
  IF sizes = <<>> THEN 0 ELSE Head(sizes) + SumSizes(Tail(sizes))

\* the operands of the given sizes read from address addr on
RECURSIVE OperandsAt(_, _, _)
OperandsAt(m, addr, sizes) ==
  IF sizes = <<>> THEN <<>>
  ELSE <<IF Head(sizes) = 2 THEN m[addr] * 256 + m[addr + 1] ELSE m[addr]>>
         \o OperandsAt(m, addr + Head(sizes), Tail(sizes))

\* C35: for every operand-types byte, codes 00, 01 and 10 yield one operand
\* of 2, 1 and 1 bytes and the first code 11 terminates the list, no operand
\* being read for any later field; the PC advances by exactly the types
\* byte(s) plus the sizes of the operands read; call_vs2 and call_vn2 (VAR
\* 12 and 26) read a second types byte and up to 8 operands.
C35_TypesByteOperands ==
  (/\ lastOp.op = "get_next_instruction"
   /\ lastOp.fault = "none"
   /\ memory[lastOp.a] >= 192) =>
    LET a == lastOp.a
        double == memory[a] \in {236, 250}
        sizes == TypeSizes(memory[a + 1])
                   \o (IF double THEN TypeSizes(memory[a + 2]) ELSE <<>>)
        first == IF double THEN a + 3 ELSE a + 2
    IN /\ lastOp.ret[2] = OperandsAt(memory, first, sizes)
       /\ program_counter = first + SumSizes(sizes)

----------------------------------------------------------------------------
(* Claims about branching.                                                 *)

\* the call stack and memory after the running routine has returned value:
\* its frame popped, the value discarded, pushed on the caller's stack or
\* stored in the global variable the call named
ReturnedStack(cs, value) ==
  LET rest == SubSeq(cs, 1, Len(cs) - 1)
  IN IF Top(cs).return_addr = 0
     THEN [rest EXCEPT ![Len(rest)].stack = Append(@, value)]
     ELSE rest

ReturnedMemory(cs, m, value) ==
  IF Top(cs).return_addr >= 16
  THEN [m EXCEPT
          ![global_variable_start + 2 * (Top(cs).return_addr - 16)] =
            value \div 256,
          ![global_variable_start + 2 * (Top(cs).return_addr - 16) + 1] =
            value % 256]
  ELSE m

----------------------------------------------------------------------------
(* Claims about Z-character decoding.                                      *)

\* the state of ZCharTranslator.get after the first k Z-characters of zstr
StateAfter(zstr, k) ==
  zchar_loop(zchar_state(TRUE), SubSeq(zstr, 1, k), <<>>,
             _alphabet(memory).ret)

\* the k-th Z-character of zstr completes the emission of a ZSCII character
Emits(zstr, k) ==
  Len(StateAfter(zstr, k).zscii) = Len(StateAfter(zstr, k - 1).zscii) + 1

\* C37: in ZCharTranslator.get, immediately after each emission of a ZSCII
\* character (an alphabet character, a space, or a 10-bit escape: A2 code 6
\* followed by two Z-characters whatever their values) the active alphabet
\* equals the locked alphabet; in versions 3 to 5 the shift codes 4 and 5
\* never change the locked alphabet, which stays A0.
C37_AlphabetRevertsAfterEmission ==
  (lastOp.op = "ZCharTranslator.get" /\ lastOp.fault = "none") =>
    \A k \in 1..Len(lastOp.a) :
      /\ Emits(lastOp.a, k) =>
           StateAfter(lastOp.a, k).curr_alpha
             = StateAfter(lastOp.a, k).prev_alpha
      /\ version >= 3 => StateAfter(lastOp.a, k).prev_alpha = 0

----------------------------------------------------------------------------
(* Claims about the Stks chunk.                                            *)

\* the fields of the frame encoded at bytes[ptr], ptr counting from 0: the
\* 3-byte return PC, the flags byte, the result variable, the arguments
\* byte, the 2-byte size of the evaluation stack, the locals, the stack
EncodedFrame(bytes, ptr) ==
  LET flags == bytes[ptr + 4]
      n == flags % 16
      size == bytes[ptr + 7] * 256 + bytes[ptr + 8]
  IN [return_pc |-> bytes[ptr + 1] * 65536 + bytes[ptr + 2] * 256
                      + bytes[ptr + 3],
      disposition |-> IF (flags \div 16) % 2 = 1 THEN None
                      ELSE bytes[ptr + 5],
      local_vars |-> stks_words(bytes, ptr + 8, n),
      stack |-> stks_words(bytes, ptr + 8 + 2 * n, size),
      next |-> ptr + 8 + 2 * n + 2 * size]

\* the length a frame at bytes[ptr] declares, when its header is there
FrameEnd(bytes, ptr) ==
  IF ptr + 8 > Len(bytes) THEN Len(bytes) + 1
  ELSE ptr + 8 + 2 * (bytes[ptr + 4] % 16)
         + 2 * (bytes[ptr + 7] * 256 + bytes[ptr + 8])

\* the frames encoded in bytes from ptr on, in file order; the last one may
\* extend past the end
RECURSIVE EncodedFrames(_, _)
EncodedFrames(bytes, ptr) ==
  IF ptr >= Len(bytes) \/ FrameEnd(bytes, ptr) > Len(bytes) THEN <<>>
  ELSE <<EncodedFrame(bytes, ptr)>>
         \o EncodedFrames(bytes, FrameEnd(bytes, ptr))

RECURSIVE StksOverflows(_, _)
StksOverflows(bytes, ptr) ==
  /\ ptr < Len(bytes)
  /\ \/ FrameEnd(bytes, ptr) > Len(bytes)
     \/ StksOverflows(bytes, FrameEnd(bytes, ptr))

\* C38: for every Stks chunk made of well-formed frames, _parse_stks builds
\* exactly one frame per encoded frame, in file order, the first frame at
\* the bottom, each with the 3-byte big-endian return PC, the locals that
\* bits 0..3 of the flags byte count, in order, the result disposition of
\* the result-variable byte (discard when flag bit 4 is set) and the
\* evaluation stack of the m entries, the first at the bottom; a chunk whose
\* last frame extends past the end of the chunk raises
\* QuetzalStackFrameOverflow and installs no stack.  Checked on save files
\* whose only chunk is the Stks chunk; the return PC of a frame is looked for
\* in the program counter saved in the frame or in the frame below it.
C38_StksFrames ==
  [][(/\ lastOp'.op = "load"
      /\ lastOp'.a.header = "FORM" /\ lastOp'.a.type = "IFZS"
      /\ Len(lastOp'.a.chunks) = 1
      /\ lastOp'.a.chunks[1].name = "Stks") =>
       LET bytes == lastOp'.a.chunks[1].data
           frames == EncodedFrames(bytes, 0)
           built == machine_call_stack'
       IN IF StksOverflows(bytes, 0)
          THEN /\ lastOp'.fault = "QuetzalStackFrameOverflow"
               /\ machine_call_stack' = machine_call_stack
               /\ stack_replaced' = stack_replaced
          ELSE /\ lastOp'.fault = "none"
               /\ Len(built) = Len(frames) + 1
               /\ built[1].kind = "bottom"
               /\ \A i \in 1..Len(frames) :
                    /\ frames[i].return_pc
                         \in {built[i + 1].program_counter,
                              built[i].program_counter}
                    /\ built[i + 1].return_addr = frames[i].disposition
                    /\ built[i + 1].local_vars = frames[i].local_vars
                    /\ built[i + 1].stack = frames[i].stack]_vars

----------------------------------------------------------------------------
(* Claims about the sibling walk of insert_object.                         *)

\* C39: insert_object(parent, child) terminates for every well-formed object
\* tree and every child, also when the child is the third or a later member
\* of its old parent's child chain: the walk over the sibling chain advances
\* on every iteration and ends by unlinking the child or, when the child is
\* not found, with ZObjectMalformedTree.  Checked on the first call, made on
\* the well-formed tree of the story.
C39_InsertObjectTerminates ==
  (lastOp.op = "insert_object" /\ nops = 1) =>
    lastOp.fault \in {"none", "ZObjectMalformedTree"}

----------------------------------------------------------------------------
(* Claims about the reuse of a parser.                                     *)

\* the file holds a memory or stack chunk
HasMemOrStks(file) ==
  \E i \in DOMAIN file.chunks : file.chunks[i].name \in {"CMem", "UMem", "Stks"}

\* the file starts with its only IFhd chunk, that of the story
IfhdFirst(file) ==
  /\ file.header = "FORM" /\ file.type = "IFZS"
  /\ Len(file.chunks) >= 1
  /\ file.chunks[1] = IfhdOf(pristine_mem)
  /\ \A i \in DOMAIN file.chunks : file.chunks[i].name = "IFhd" <=> i = 1

\* C40: a QuetzalParser can be used for any number of loads, the chunk-order
\* state being per file: after a load of a file that held a CMem, UMem or
\* Stks chunk, a later load, with the same parser, of a file whose IFhd
\* chunk comes first does not fail with QuetzalIllegalChunkOrder.
C40_ParserReusable ==
  [][(/\ lastOp.op = "load"
      /\ lastOp.a.header = "FORM" /\ lastOp.a.type = "IFZS"
      /\ HasMemOrStks(lastOp.a)
      /\ lastOp'.op = "load"
      /\ IfhdFirst(lastOp'.a)) =>
       lastOp'.fault # "QuetzalIllegalChunkOrder"]_vars

====
